---------------------------- MODULE Spec2Model ----------------------------
(***************************************************************************)
(* A model of the gg_ws WebSocket client runtime:                          *)
(*   - LockFreeQueue (gg-ws/src/internal/message_queue.hpp), the MPSC      *)
(*     queue behind sendAsync;                                             *)
(*   - the frame write path WebSocket::Impl::sendFrame / rawSend;          *)
(*   - the session life cycle WebSocket::Impl::connect / disconnect /      *)
(*     ioLoop / handleDisconnect with the HeartbeatManager worker;         *)
(*   - HeartbeatManager::timerLoop against the clock.                      *)
(* Each part has its own specification over the module's variables; the    *)
(* variables of the other parts stay at their initial values.              *)
(***************************************************************************)
EXTENDS Integers, Sequences, FiniteSets, TLC

(***************************************************************************)
(* Bounds of the model.                                                    *)
(***************************************************************************)
NumProducers == 2
ItemsPerProducer == 2
NumSenders == 2
CallsPerSender == 1
PayloadLen == 1
MaxAttemptsCfg == 2
MaxTicks == 3
MaxTime == 8
MaxMessageSizeCfg == 1
PoolSize == 1
MaxFrames == 3
CoreCount == 2
MaxDigits == 9
MaxSubs == 2
MaxEmits == 2

VARIABLES
    \* ---- LockFreeQueue ----
    head_,       \* std::atomic<Node*> head_
    tail_,       \* std::atomic<Node*> tail_
    nodeNext,    \* Node::next of every allocated node (NULL = 0)
    nodeData,    \* Node::data of every allocated node
    freed,       \* nodes already deleted
    pcP,         \* each producer's position inside push()
    newNode,     \* push(): local newNode
    prevTail,    \* push(): local prevTail
    pushed,      \* number of push() calls each producer has completed
    popped,      \* items returned by pop(), in the order the consumer got them
    lastPop,     \* result of the consumer's last pop() (NULLOPT before the first)
    useAfterFree, \* a push or pop dereferenced a deleted node
    \* ---- session flags shared by the send path and the life cycle ----
    connected,   \* std::atomic<bool> connected
    \* ---- frame write path ----
    sendMutex,   \* std::mutex sendMutex: the thread holding it, or NoThread
    wire,        \* bytes the transport accepted, each <<frame, offset>>
    frames,      \* frames built so far: [opcode, size, by]
    transportBroken, \* a write observed a fatal error
    wpc,         \* each sending thread's position
    wframe,      \* sendFrame(): the frame the thread is writing
    totalSent,   \* rawSend(): local totalSent
    calls,       \* send calls each thread has completed
    \* ---- BufferPool ----
    buffers_,    \* buffers_.size(): the buffers the pool owns are 1..buffers_
    available_,  \* std::vector<char*> available_
    mutex_,      \* BufferPool::mutex_: the thread holding it, or NoThread
    hData,       \* Buffer::data_ of every handle variable of every thread (NULL = 0)
    ppc,         \* each pool user's position
    plocal,      \* each pool user's operation in progress: its operands, acquire()'s ptr, the returned temporary
    \* ---- callback slots ----
    callbackMutex, \* std::mutex callbackMutex: "free" or the thread that owns it
    cbSlots,     \* the stored std::function of each slot (NoCallback: empty)
    cbpc,        \* position of the dispatching thread and of the user thread
    cbRunning,   \* the slot and callable the dispatch in progress is invoking
    cbArg,       \* arguments of each thread's setter call in progress
    cbDestroyed, \* the callable being invoked was destroyed while running
    \* ---- frame codec ----
    cdMax,       \* config.maxMessageSize
    cdIn,        \* sendFrame(): opcode, payload and the mask key drawn
    cdBytes,     \* sendFrame(): the bytes of the frame
    cdOut,       \* readFrame(): what it parsed from those bytes
    \* ---- inbound frames ----
    rxFed,       \* the frames the peer has sent, in order
    rxLog,       \* the callbacks readFrame's dispatch invoked, in order, each with the number of the frame that caused it
    rxErrors,    \* the onError calls made, each with the number of the frame that caused it
    rxLoop,      \* "running" while ioLoop is in its loop, "exited" after it left
    \* ---- CPU affinity ----
    pinnedCore,  \* Impl::pinnedCore: the core to pin the I/O thread to, -1 for none
    pinCall,     \* the pinThread call that has run and not yet returned: its argument and result
    ioRun,       \* the I/O thread: where it is in ioLoop, the core it asked to be pinned to, the turns of its loop
    ioAffinity,  \* the core the system has bound the I/O thread to, -1 for none
    \* ---- URL parser ----
    puUrl,       \* the URL given: its scheme, host, port text and path
    puResult,    \* the ParsedUrl that parseUrl returned, or that it threw, or that it has not run
    \* ---- event bus ----
    m_nextId,    \* EventBus::m_nextId
    m_listeners, \* the listeners of the event type, in the order of the vector: id and subscribing thread
    m_queues,    \* the threads that have a ThreadQueue
    m_pending,   \* ThreadQueue::m_pending of each thread: closures, each the id whose callback it holds and the event
    toProcess,   \* the local queue of each thread's running poll
    pollpc,      \* where each thread is in poll
    subs,        \* the Subscription handles: id, whether the unsubscribe function is there, m_active
    subThread,   \* the thread that made each subscription
    unsubscribed,\* the ids unsubscribe has run for
    emitLog,     \* the emits made, in order: each the set of ids registered when it ran
    runLog,      \* the calls of each id's callback, in order: the event, the thread that ran it, whether the id was unsubscribed before
    \* ---- heartbeat engine ----
    running_,    \* HeartbeatManager::running_
    waitingPong_,\* HeartbeatManager::waitingPong_, the outstanding-ping flag
    engMutex,    \* HeartbeatManager::mutex_: held only inside single steps, so always "free" between them
    engPc,       \* where the worker is in timerLoop
    engNotified, \* the blocked worker has a notification of cv_ to take
    stopPc,      \* where the thread calling stop() is
    engCycle,    \* the worker's cycle: its number, the onTimeout_ calls and send calls made in it, the result of the send
    engUnanswered, \* pings written for which the peer's Pong has not arrived
    engLast,     \* the most recent of: start, a send that succeeded, a Pong arrival, a timeout detection
    \* ---- release of the transport ----
    released,    \* cleanup() has freed the TLS session and closed the socket
    \* ---- disconnect() inside a callback ----
    cbHolder,    \* the thread holding callbackMutex, or "none"
    rpc,         \* where the I/O thread, the heartbeat worker, the user thread are
    rcb,         \* the callback each worker thread is dispatching
    rdConnected, \* Impl::connected
    rdRunning,   \* Impl::running
    rdHbRunning, \* HeartbeatManager::running_
    rdTimerJoinable, \* timerThread_.joinable()
    rdIoJoinable,    \* ioThread.joinable()
    rdWas,       \* wasConnected of each thread's disconnect()
    \* ---- session life cycle ----
    pc,  \* position of the user thread, the I/O thread, the heartbeat worker
    running,  \* std::atomic<bool> running
    reconnectAttempts,  \* int reconnectAttempts
    autoReconnect,  \* config.autoReconnect
    maxReconnectAttempts,  \* config.maxReconnectAttempts
    secure,  \* parsedUrl.secure (a wss URL)
    urlValid,  \* parsedUrl.valid()
    tls,  \* the TLS objects ssl and sslCtx: "none" (nullptr) or "open"
    socket,  \* "none" (SOCKET_ERROR_VALUE) or "open"
    ioJoinable,  \* ioThread.joinable()
    ioThreads,  \* threads running ioLoop that have not returned from it
    terminated,  \* std::terminate() was called
    hbRunning,  \* HeartbeatManager::running_
    waitingPong,  \* HeartbeatManager::waitingPong_
    timerJoinable,  \* HeartbeatManager::timerThread_.joinable()
    hbMode,  \* HeartbeatManager::config_.mode
    hbModeRead,  \* timerLoop(): local mode
    hbMutex,  \* HeartbeatManager::mutex_: "free" or the thread that owns it
    autoPong,  \* config.ping.autoPong
    rxPing,  \* handlePing(): payload of the Ping frame being handled
    wasConnected,  \* disconnect(): local wasConnected
    discCode,  \* disconnect(): argument code
    \* ---- what the session did (history) ----
    closeFrames,  \* Close frames disconnect wrote on the current connection
    nOnDisconnect,  \* onDisconnect invocations for the current connection
    lastDisconnectCode,  \* argument of the last onDisconnect
    attemptsMade,  \* reconnection attempts since the connection was opened
    peerEnded,  \* the I/O thread read a Close frame or failed to read
    everOpened,  \* a handshake has succeeded on this session
    disconnectReturned,  \* disconnect() returned and connect() was not called since
    normalDisconnect,  \* disconnect(1000) was called and connect() not since
    lateCallback,  \* a callback ran while disconnectReturned
    redundantCall,  \* the disconnect() in progress began on a disconnected session
    snapshot,  \* the session state when that call began
    timedOut,  \* onError(PingTimeout) was raised on the current connection
    pongOutcome,  \* what handlePing did about the Pong for the Ping being handled
    pingLog,  \* Pong frames written and onPing calls made for the Ping being handled, in order
    tooLarge,  \* onError(MessageTooLarge) was raised on the current connection
    connectCall,  \* for each thread, what its connect() in progress did: the failed step, the code given to onError, the handshake response, what it published
    closeCode,  \* handleClose(): the code it computed for the peer's Close (0: none received)
    sentCloseCode,  \* status code of the last Close frame written (0: none written)
    \* ---- heartbeat timing ----
    now,  \* std::chrono::steady_clock::now(), in ticks
    hbInterval,  \* config_.interval, in ticks
    hbTimeout,  \* config_.timeout, in ticks
    lastPingSent,  \* HeartbeatManager::lastPingSent_
    wakeAt,  \* deadline of the worker's cv_.wait_for
    lastWake,  \* time of the last cycle the worker completed (history)
    pingAt  \* time the oldest ping not yet answered or timed out was sent, or NoPing (history)

qvars == <<head_, tail_, nodeNext, nodeData, freed, pcP, newNode, prevTail,
           pushed, popped, lastPop, useAfterFree>>

wvars == <<sendMutex, wire, frames, transportBroken, wpc, wframe, totalSent, calls>>

\* The variables of each component, and what each component leaves alone.
pvars == <<buffers_, available_, mutex_, hData, ppc, plocal>>
kvars == <<callbackMutex, cbSlots, cbpc, cbRunning, cbArg, cbDestroyed>>
cvars == <<cdMax, cdIn, cdBytes, cdOut>>
rvars == <<rxFed, rxLog, rxErrors, rxLoop>>
avars == <<pinnedCore, pinCall, ioRun, ioAffinity>>
uvars == <<puUrl, puResult>>
bvars == <<m_nextId, m_listeners, m_queues, m_pending, toProcess, pollpc,
           subs, subThread, unsubscribed, emitLog, runLog>>
evars == <<running_, waitingPong_, engMutex, engPc, engNotified, stopPc,
           engCycle, engUnanswered, engLast>>
fvars == <<released>>
gvars == <<cbHolder, rpc, rcb, rdConnected, rdRunning, rdHbRunning,
           rdTimerJoinable, rdIoJoinable, rdWas>>
xvars == <<pvars, kvars, cvars, rvars, avars, uvars, bvars, evars, fvars,
           gvars>>

svars == <<pc, running, reconnectAttempts, autoReconnect,
           maxReconnectAttempts, secure, urlValid, tls, socket, ioJoinable,
           ioThreads, terminated, hbRunning, waitingPong, timerJoinable,
           hbMode, hbModeRead, hbMutex, autoPong, rxPing, wasConnected,
           discCode>>
hvars == <<closeFrames, nOnDisconnect, lastDisconnectCode, attemptsMade,
           peerEnded, everOpened, disconnectReturned, normalDisconnect,
           lateCallback, redundantCall, snapshot, timedOut, pongOutcome,
           pingLog, tooLarge, connectCall, closeCode, sentCloseCode>>
tvars == <<now, hbInterval, hbTimeout, lastPingSent, wakeAt, lastWake,
           pingAt>>

vars == <<qvars, connected, wvars, svars, hvars, tvars, xvars>>

\* What the queue's operations and the send path's leave alone.
notQueue == <<connected, wvars, svars, hvars, tvars, xvars>>
notWire == <<qvars, svars, hvars, tvars, xvars>>
notSession == <<qvars, wvars, xvars>>
notPool == <<qvars, connected, wvars, svars, hvars, tvars, kvars, cvars,
              rvars, avars, uvars, bvars, evars, fvars, gvars>>
notCallbacks == <<qvars, connected, wvars, svars, hvars, tvars, pvars,
                   cvars, rvars, avars, uvars, bvars, evars, fvars, gvars>>
notCodec == <<qvars, connected, wvars, svars, hvars, tvars, pvars, kvars,
               rvars, avars, uvars, bvars, evars, fvars, gvars>>
notReader == <<qvars, connected, wvars, svars, hvars, tvars, pvars, kvars,
                cvars, avars, uvars, bvars, evars, fvars, gvars>>
notAffinity == <<qvars, connected, wvars, svars, hvars, tvars, pvars, kvars,
                  cvars, rvars, uvars, bvars, evars, fvars, gvars>>
notUrl == <<qvars, connected, wvars, svars, hvars, tvars, pvars, kvars,
             cvars, rvars, avars, bvars, evars, fvars, gvars>>
notBus == <<qvars, connected, wvars, svars, hvars, tvars, pvars, kvars,
             cvars, rvars, avars, uvars, evars, fvars, gvars>>
notEngine == <<qvars, connected, wvars, svars, hvars, tvars, pvars, kvars,
                cvars, rvars, avars, uvars, bvars, fvars, gvars>>
notTeardown == <<qvars, connected, wvars, svars, hvars, tvars, pvars, kvars,
                  cvars, rvars, avars, uvars, bvars, evars, gvars>>
notReentry == <<qvars, connected, wvars, svars, hvars, tvars, pvars, kvars,
                 cvars, rvars, avars, uvars, bvars, evars, fvars>>

NULL == 0
NULLOPT == <<>>
Producers == 1..NumProducers

(***************************************************************************)
(* LockFreeQueue                                                           *)
(***************************************************************************)
Allocated == DOMAIN nodeNext

\* The constructor: one dummy node, head_ = tail_ = dummy.
QueueInit ==
    /\ head_ = 1
    /\ tail_ = 1
    /\ nodeNext = (1 :> NULL)
    /\ nodeData = (1 :> NULLOPT)
    /\ freed = {}
    /\ pcP = [p \in Producers |-> "idle"]
    /\ newNode = [p \in Producers |-> NULL]
    /\ prevTail = [p \in Producers |-> NULL]
    /\ pushed = [p \in Producers |-> 0]
    /\ popped = <<>>
    /\ lastPop = NULLOPT
    /\ useAfterFree = FALSE

\* The k-th item producer p pushes (test_queue_multiple_producers pushes
\* p * itemsPerProducer + i).
Item(p, k) == <<p, k>>

\* A push that swaps itself in behind the dummy instead of behind the tail.
PushExchangeAtHead(p) ==
    /\ pcP[p] = "idle"
    /\ pushed[p] < ItemsPerProducer
    /\ LET n == Cardinality(Allocated) + 1 IN
        /\ nodeNext' = nodeNext @@ (n :> nodeNext[head_])
        /\ nodeData' = nodeData @@ (n :> Item(p, pushed[p] + 1))
        /\ newNode' = [newNode EXCEPT ![p] = n]
        /\ prevTail' = [prevTail EXCEPT ![p] = head_]
        /\ tail_' = IF nodeNext[head_] = NULL THEN n ELSE tail_
    /\ pcP' = [pcP EXCEPT ![p] = "link"]
    /\ UNCHANGED <<head_, freed, pushed, popped, lastPop, useAfterFree, notQueue>>

\* push(), first half: newNode = new Node(item);
\* prevTail = tail_.exchange(newNode).
PushExchange(p) ==
    /\ pcP[p] = "idle"
    /\ pushed[p] < ItemsPerProducer
    /\ LET n == Cardinality(Allocated) + 1 IN
        /\ nodeNext' = nodeNext @@ (n :> NULL)
        /\ nodeData' = nodeData @@ (n :> Item(p, pushed[p] + 1))
        /\ newNode' = [newNode EXCEPT ![p] = n]
        /\ prevTail' = [prevTail EXCEPT ![p] = tail_]
        /\ tail_' = n
    /\ pcP' = [pcP EXCEPT ![p] = "link"]
    /\ UNCHANGED <<head_, freed, pushed, popped, lastPop, useAfterFree, notQueue>>

\* A push that returns without storing the link.
PushLinkNoStore(p) ==
    /\ pcP[p] = "link"
    /\ pushed' = [pushed EXCEPT ![p] = @ + 1]
    /\ pcP' = [pcP EXCEPT ![p] = "idle"]
    /\ UNCHANGED <<head_, tail_, nodeNext, nodeData, freed, newNode, prevTail, popped,
                   lastPop, useAfterFree, notQueue>>

\* push(), second half: prevTail->next.store(newNode); return.
PushLink(p) ==
    /\ pcP[p] = "link"
    /\ nodeNext' = [nodeNext EXCEPT ![prevTail[p]] = newNode[p]]
    /\ useAfterFree' = (useAfterFree \/ prevTail[p] \in freed)
    /\ pushed' = [pushed EXCEPT ![p] = @ + 1]
    /\ pcP' = [pcP EXCEPT ![p] = "idle"]
    /\ UNCHANGED <<head_, tail_, nodeData, freed, newNode, prevTail, popped, lastPop, notQueue>>

\* A pop that returns next->data but forgets head_.store(next).
PopNoAdvance ==
    LET head == head_
        next == nodeNext[head]
    IN  /\ Len(popped) < NumProducers * ItemsPerProducer + 1
        /\ IF next = NULL
           THEN /\ lastPop' = NULLOPT
                /\ UNCHANGED <<head_, freed, popped>>
           ELSE /\ lastPop' = nodeData[next]
                /\ popped' = Append(popped, nodeData[next])
                /\ UNCHANGED <<head_, freed>>
        /\ UNCHANGED <<useAfterFree, tail_, nodeNext, nodeData, pcP, newNode, prevTail, pushed, notQueue>>

\* pop(), run by the single consumer: the only shared location it reads is
\* head->next, so the call is one step.
Pop ==
    LET head == head_
        next == nodeNext[head]
    IN  /\ useAfterFree' = (useAfterFree \/ head \in freed \/ (next # NULL /\ next \in freed))
        /\ IF next = NULL
           THEN /\ lastPop' = NULLOPT
                /\ UNCHANGED <<head_, freed, popped>>
           ELSE /\ lastPop' = nodeData[next]
                /\ popped' = Append(popped, nodeData[next])
                /\ head_' = next
                /\ freed' = freed \cup {head}
        /\ UNCHANGED <<tail_, nodeNext, nodeData, pcP, newNode, prevTail, pushed, notQueue>>

\* empty(): head_->next == nullptr.
empty == nodeNext[head_] = NULL

QueueNext ==
    \/ \E p \in Producers : PushExchange(p)
    \/ \E p \in Producers : PushLink(p)
    \/ Pop

(***************************************************************************)
(* The frame write path: send / sendPingFrame / sendPongFrame /            *)
(* sendCloseFrame -> sendFrame -> rawSend                                  *)
(***************************************************************************)
NoThread == -1
Closer == 0                      \* the thread running disconnect()
Senders == 1..NumSenders         \* threads calling send, sendPing, sendPong
WThreads == {Closer} \cup Senders

OpText == 1
OpBinary == 2
OpClose == 8
OpPing == 9
OpPong == 10

\* The entry point each sending thread uses: a user thread calling send(),
\* the heartbeat worker calling sendPingFrame(""), the I/O thread answering a
\* ping with sendPongFrame(payload), a user thread calling sendBinary().
SenderOpcode(t) ==
    CASE t = Closer -> OpClose
      [] t % 4 = 1 -> OpText
      [] t % 4 = 2 -> OpPing
      [] t % 4 = 3 -> OpPong
      [] OTHER -> OpBinary

\* payload.size() of the frame each entry point sends: sendCloseFrame sends
\* the 2-byte code, the heartbeat an empty ping.
SenderPayload(t) ==
    CASE t = Closer -> 2
      [] SenderOpcode(t) = OpPing -> 0
      [] OTHER -> PayloadLen

\* frame.size() in sendFrame for a payload shorter than 126 bytes: two
\* header bytes, four mask-key bytes, the masked payload.
FrameSize(n) == 2 + 4 + n

WireInit ==
    /\ sendMutex = NoThread
    /\ wire = <<>>
    /\ frames = <<>>
    /\ transportBroken = FALSE
    /\ wpc = [t \in WThreads |-> "idle"]
    /\ wframe = [t \in WThreads |-> 0]
    /\ totalSent = [t \in WThreads |-> 0]
    /\ calls = [t \in WThreads |-> 0]

\* send(), sendBinary(), sendPingFrame(), sendPongFrame():
\* if (!connected.load()) return false; return sendFrame(...).
SendCheck(t) ==
    /\ t \in Senders
    /\ wpc[t] = "idle"
    /\ calls[t] < CallsPerSender
    /\ IF connected
       THEN wpc' = [wpc EXCEPT ![t] = "lock"] /\ UNCHANGED calls
       ELSE calls' = [calls EXCEPT ![t] = @ + 1] /\ UNCHANGED wpc
    /\ UNCHANGED <<connected, sendMutex, wire, frames, transportBroken, wframe, totalSent, notWire>>

\* disconnect(): wasConnected = connected.exchange(false);
\* if (wasConnected) sendCloseFrame(code).
DisconnectExchange ==
    /\ wpc[Closer] = "idle"
    /\ calls[Closer] < CallsPerSender
    /\ connected' = FALSE
    /\ IF connected
       THEN wpc' = [wpc EXCEPT ![Closer] = "lock"] /\ UNCHANGED calls
       ELSE calls' = [calls EXCEPT ![Closer] = @ + 1] /\ UNCHANGED wpc
    /\ UNCHANGED <<sendMutex, wire, frames, transportBroken, wframe, totalSent, notWire>>

\* A sendFrame that builds and writes its frame without taking sendMutex.
SendFrameNoLock(t) ==
    /\ wpc[t] = "lock"
    /\ sendMutex' = t
    /\ frames' = Append(frames, [opcode |-> SenderOpcode(t),
                                 size |-> FrameSize(SenderPayload(t)), by |-> t])
    /\ wframe' = [wframe EXCEPT ![t] = Len(frames) + 1]
    /\ totalSent' = [totalSent EXCEPT ![t] = 0]
    /\ wpc' = [wpc EXCEPT ![t] = "write"]
    /\ UNCHANGED <<connected, wire, transportBroken, calls, notWire>>

\* sendFrame(): std::lock_guard lock(sendMutex); build the frame (header,
\* mask key, masked payload); enter rawSend with totalSent = 0.
SendFrameLock(t) ==
    /\ wpc[t] = "lock"
    /\ sendMutex = NoThread
    /\ sendMutex' = t
    /\ frames' = Append(frames, [opcode |-> SenderOpcode(t),
                                 size |-> FrameSize(SenderPayload(t)), by |-> t])
    /\ wframe' = [wframe EXCEPT ![t] = Len(frames) + 1]
    /\ totalSent' = [totalSent EXCEPT ![t] = 0]
    /\ wpc' = [wpc EXCEPT ![t] = "write"]
    /\ UNCHANGED <<connected, wire, transportBroken, calls, notWire>>

\* The bytes of frame f from offset a+1 to b.
FrameBytes(f, a, b) == [i \in 1..(b - a) |-> <<f, a + i>>]

\* sendFrame() returns: the lock_guard releases sendMutex.
SendFrameReturn(t) ==
    /\ sendMutex' = IF sendMutex = t THEN NoThread ELSE sendMutex
    /\ calls' = [calls EXCEPT ![t] = @ + 1]
    /\ wpc' = [wpc EXCEPT ![t] = "idle"]

\* rawSend(), one turn of its loop: SSL_write / ::send accepts sent > 0 of the
\* remaining bytes; when totalSent reaches len, rawSend returns true.
RawSendWrite(t) ==
    /\ wpc[t] = "write"
    /\ ~transportBroken
    /\ \E sent \in 1..(frames[wframe[t]].size - totalSent[t]) :
        /\ wire' = wire \o FrameBytes(wframe[t], totalSent[t], totalSent[t] + sent)
        /\ totalSent' = [totalSent EXCEPT ![t] = @ + sent]
        /\ IF totalSent[t] + sent = frames[wframe[t]].size
           THEN SendFrameReturn(t)
           ELSE UNCHANGED <<sendMutex, calls, wpc>>
    /\ UNCHANGED <<connected, frames, transportBroken, wframe, notWire>>

\* rawSend(), one turn of its loop: sent <= 0, return false.  A write error
\* is fatal for the transport (4.5: write_all loops until all bytes are
\* written or it observes a fatal error).
RawSendFail(t) ==
    /\ wpc[t] = "write"
    /\ transportBroken' = TRUE
    /\ SendFrameReturn(t)
    /\ UNCHANGED <<connected, wire, frames, wframe, totalSent, notWire>>

WireNext ==
    \/ \E t \in Senders : SendCheck(t)
    \/ DisconnectExchange
    \/ \E t \in WThreads : SendFrameLock(t)
    \/ \E t \in WThreads : RawSendWrite(t)
    \/ \E t \in WThreads : RawSendFail(t)

\* The frame whose bytes start at position i of the wire ends, complete, at
\* position i + size - 1.
WholeFrameAt(i) ==
    LET f == wire[i][1] IN
    /\ wire[i][2] = 1
    /\ i + frames[f].size - 1 <= Len(wire)
    /\ \A k \in 1..frames[f].size : wire[i + k - 1] = <<f, k>>

\* The wire from position i on is a concatenation of whole frames, except
\* that its last frame may still be in progress (or cut by the fatal error).
RECURSIVE FramesFrom(_)
FramesFrom(i) ==
    IF i > Len(wire) THEN TRUE
    ELSE LET f == wire[i][1] IN
         IF WholeFrameAt(i) THEN FramesFrom(i + frames[f].size)
         ELSE /\ wire[i][2] = 1
              /\ \A k \in i..Len(wire) : wire[k] = <<f, k - i + 1>>
              /\ \/ \E t \in WThreads : wpc[t] = "write" /\ wframe[t] = f
                                        /\ totalSent[t] = Len(wire) - i + 1
                 \/ transportBroken

CloseNormal == 1000
CloseGoingAway == 1001
CloseAbnormal == 1006
DefaultMaxReconnectAttempts == 5
NoStatusReceived == 1005
MessageTooBig == 1009
ErrConnectionFailed == 1001
ErrHandshakeFailed == 1002
ErrInvalidUrl == 1004
ErrTlsError == 1005
DefaultIntervalTicks == 3
DefaultTimeoutTicks == 1
NoPing == -1

\* Payloads of the Close frames the peer sends: empty, one byte, the code
\* 1000, the code 1001 followed by a reason byte.
ClosePayloads == {<<>>, <<3>>, <<3, 232>>, <<3, 233, 7>>}

\* Payload lengths the header of an inbound data frame declares;
\* config.maxMessageSize is MaxMessageSizeCfg.
FrameLens == 0..(MaxMessageSizeCfg + 1)

\* Payloads of the Ping frames the peer sends, and the mask keys sendFrame
\* draws (four bytes from std::uniform_int_distribution<>(0, 255)).
PingPayloads == {<<>>, <<7>>, <<7, 200>>}
MaskKeys == {<<0, 0, 0, 0>>, <<255, 1, 2, 3>>}

\* a ^ b on bytes.
RECURSIVE Xor(_, _)
Xor(a, b) ==
    IF a = 0 THEN b
    ELSE IF b = 0 THEN a
    ELSE (((a % 2) + (b % 2)) % 2) + 2 * Xor(a \div 2, b \div 2)

\* sendFrame(opcode, payload) for a payload shorter than 126 bytes: FIN and
\* opcode, mask bit and length, the mask key, payload[i] ^ maskKey[i % 4].
BuildFrame(opcode, payload, key) ==
    [opcode |-> opcode, len |-> Len(payload), mask |-> key,
     data |-> [i \in 1..Len(payload) |-> Xor(payload[i], key[((i - 1) % 4) + 1])]]

\* The payload a receiver gets from a masked frame: data[i] ^ mask[i % 4].
FramePayload(f) ==
    [i \in 1..f.len |-> Xor(f.data[i], f.mask[((i - 1) % 4) + 1])]

\* handleClose(): the 2-byte big-endian status code of the payload, or
\* NoStatusReceived.
CloseCodeOf(payload) ==
    IF Len(payload) >= 2 THEN payload[1] * 256 + payload[2] ELSE NoStatusReceived

\* Threads that can run connect(): the user thread, and the I/O thread from
\* handleDisconnect.
ConnectThreads == {"user", "io"}

\* No connect() in progress.
NoCall == [step |-> "none", error |-> 0, response |-> <<>>, events |-> {}]

\* What performHandshake can read as the server's answer, as the words of
\* the response; <<>> is rawRecv returning <= 0.
HandshakeResponses ==
    { <<>>,
      <<"HTTP/1.1", "101", "Upgrade">>,
      <<"HTTP/1.1", "101">>,
      <<"HTTP/1.1", "200", "Upgrade">>,
      <<"HTTP/1.1", "400">> }

\* performHandshake(): response.find("101") != npos and
\* response.find("Upgrade") != npos.
Accepts(response) ==
    /\ \E i \in 1..Len(response) : response[i] = "101"
    /\ \E i \in 1..Len(response) : response[i] = "Upgrade"

\* The session as constructed (WebSocket::Impl::Impl) with the given
\* configuration.
SessionInit(ar, mx, sec, uv, pm) ==
    /\ pc = [t \in {"user", "io", "hb"} |-> IF t = "user" THEN "idle" ELSE "none"]
    /\ running = FALSE
    /\ reconnectAttempts = 0
    /\ autoReconnect = ar
    /\ maxReconnectAttempts = mx
    /\ secure = sec
    /\ urlValid = uv
    /\ tls = "none"
    /\ socket = "none"
    /\ ioJoinable = FALSE
    /\ ioThreads = 0
    /\ terminated = FALSE
    /\ hbRunning = FALSE
    /\ waitingPong = FALSE
    /\ timerJoinable = FALSE
    /\ hbMode = pm
    /\ hbModeRead = "Opcode"
    /\ hbMutex = "free"
    /\ autoPong = TRUE
    /\ rxPing = <<>>
    /\ wasConnected = FALSE
    /\ discCode = 0
    /\ closeFrames = 0
    /\ nOnDisconnect = 0
    /\ lastDisconnectCode = 0
    /\ attemptsMade = 0
    /\ peerEnded = FALSE
    /\ everOpened = FALSE
    /\ disconnectReturned = FALSE
    /\ normalDisconnect = FALSE
    /\ lateCallback = FALSE
    /\ redundantCall = FALSE
    /\ snapshot = <<>>
    /\ timedOut = FALSE
    /\ pongOutcome = "none"
    /\ pingLog = <<>>
    /\ tooLarge = FALSE
    /\ connectCall = [t \in ConnectThreads |-> NoCall]
    /\ closeCode = 0
    /\ sentCloseCode = 0
    /\ now = 0
    /\ hbInterval = DefaultIntervalTicks
    /\ hbTimeout = DefaultTimeoutTicks
    /\ lastPingSent = 0
    /\ wakeAt = 0
    /\ lastWake = 0
    /\ pingAt = NoPing

\* A user callback is invoked (triggerError, triggerConnect,
\* triggerDisconnect, handleMessage, handlePong).
InvokeCallback == lateCallback' = (lateCallback \/ disconnectReturned)

\* A setup step of connect() fails: triggerError(code, ...), and connect()
\* returns false.
ConnectFails(t, failedStep, code) ==
    /\ InvokeCallback
    /\ connectCall' = [connectCall EXCEPT ![t].step = failedStep, ![t].error = code]

\* connect() publishes something: the connected flag, an I/O thread, the
\* heartbeat worker, onConnect.
Publishes(t, what) ==
    connectCall' = [connectCall EXCEPT ![t].events = @ \cup {what}]

\* Where connect() returns to: the user's call site, or handleDisconnect.
ConnectReturnPc(t, ok) ==
    IF t = "user" THEN (IF ok THEN "c_ret_true" ELSE "c_ret_false")
    ELSE (IF ok THEN "hd_ret" ELSE "hd_giveup")

\* What a disconnect() on an already disconnected session must leave as it is.
SessionState ==
    <<connected, running, socket, hbRunning, timerJoinable, ioJoinable, ioThreads,
      waitingPong, reconnectAttempts, closeFrames, nOnDisconnect, pc["io"], pc["hb"]>>

\* The user calls connect().
UserConnect ==
    /\ pc["user"] = "idle"
    /\ pc' = [pc EXCEPT !["user"] = "c_url"]
    /\ connectCall' = [connectCall EXCEPT !["user"] = NoCall]
    /\ disconnectReturned' = FALSE
    /\ normalDisconnect' = FALSE
    /\ UNCHANGED <<connected, running, reconnectAttempts, autoReconnect,
                     maxReconnectAttempts, secure, urlValid, tls, socket,
                     ioJoinable, ioThreads, terminated, hbRunning,
                     waitingPong, timerJoinable, hbMode, hbModeRead, hbMutex,
                     autoPong, rxPing, wasConnected, discCode, closeFrames,
                     nOnDisconnect, lastDisconnectCode, attemptsMade,
                     peerEnded, everOpened, lateCallback, redundantCall,
                     snapshot, timedOut, pongOutcome, pingLog, tooLarge,
                     closeCode, sentCloseCode, now, hbInterval, hbTimeout,
                     lastPingSent, wakeAt, lastWake, pingAt, notSession>>

\* connect(): if (!parsedUrl.valid()) { triggerError(InvalidUrl); return
\* false; }
ConnectCheckUrl(t) ==
    /\ pc[t] = "c_url"
    /\ IF urlValid
       THEN /\ pc' = [pc EXCEPT ![t] = "c_init"]
            /\ UNCHANGED <<lateCallback, connectCall>>
       ELSE /\ ConnectFails(t, "url", ErrInvalidUrl)
            /\ pc' = [pc EXCEPT ![t] = ConnectReturnPc(t, FALSE)]
    /\ UNCHANGED <<connected, running, reconnectAttempts, autoReconnect,
                     maxReconnectAttempts, secure, urlValid, tls, socket,
                     ioJoinable, ioThreads, terminated, hbRunning,
                     waitingPong, timerJoinable, hbMode, hbModeRead, hbMutex,
                     autoPong, rxPing, wasConnected, discCode, closeFrames,
                     nOnDisconnect, lastDisconnectCode, attemptsMade,
                     peerEnded, everOpened, disconnectReturned,
                     normalDisconnect, redundantCall, snapshot, timedOut,
                     pongOutcome, pingLog, tooLarge, closeCode, sentCloseCode,
                     now, hbInterval, hbTimeout, lastPingSent, wakeAt,
                     lastWake, pingAt, notSession>>

\* connect(): initSocket() stores the result of ::socket() in socket.  When
\* that failed: triggerError(ConnectionFailed), and connect() returns false
\* without cleanup().
ConnectInitSocket(t) ==
    /\ pc[t] = "c_init"
    /\ \/ /\ socket' = "open"
          /\ pc' = [pc EXCEPT ![t] = "c_connect"]
          /\ UNCHANGED <<lateCallback, connectCall>>
       \/ /\ socket' = "none"
          /\ ConnectFails(t, "socket", ErrConnectionFailed)
          /\ pc' = [pc EXCEPT ![t] = ConnectReturnPc(t, FALSE)]
    /\ UNCHANGED <<connected, running, reconnectAttempts, autoReconnect,
                     maxReconnectAttempts, secure, urlValid, tls, ioJoinable,
                     ioThreads, terminated, hbRunning, waitingPong,
                     timerJoinable, hbMode, hbModeRead, hbMutex, autoPong,
                     rxPing, wasConnected, discCode, closeFrames,
                     nOnDisconnect, lastDisconnectCode, attemptsMade,
                     peerEnded, everOpened, disconnectReturned,
                     normalDisconnect, redundantCall, snapshot, timedOut,
                     pongOutcome, pingLog, tooLarge, closeCode, sentCloseCode,
                     now, hbInterval, hbTimeout, lastPingSent, wakeAt,
                     lastWake, pingAt, notSession>>

\* connect(): connectSocket() resolves the host and connects, or fails:
\* triggerError(ConnectionFailed); cleanup(); return false.
ConnectSocket(t) ==
    /\ pc[t] = "c_connect"
    /\ \/ /\ pc' = [pc EXCEPT ![t] = IF secure THEN "c_tls" ELSE "c_handshake"]
          /\ UNCHANGED <<socket, tls, lateCallback, connectCall>>
       \/ /\ ConnectFails(t, "connect", ErrConnectionFailed)
          /\ socket' = "none"
          /\ tls' = "none"
          /\ pc' = [pc EXCEPT ![t] = ConnectReturnPc(t, FALSE)]
    /\ UNCHANGED <<connected, running, reconnectAttempts, autoReconnect,
                     maxReconnectAttempts, secure, urlValid, ioJoinable,
                     ioThreads, terminated, hbRunning, waitingPong,
                     timerJoinable, hbMode, hbModeRead, hbMutex, autoPong,
                     rxPing, wasConnected, discCode, closeFrames,
                     nOnDisconnect, lastDisconnectCode, attemptsMade,
                     peerEnded, everOpened, disconnectReturned,
                     normalDisconnect, redundantCall, snapshot, timedOut,
                     pongOutcome, pingLog, tooLarge, closeCode, sentCloseCode,
                     now, hbInterval, hbTimeout, lastPingSent, wakeAt,
                     lastWake, pingAt, notSession>>

\* connect(): parsedUrl.secure: initTls() creates sslCtx and ssl and runs
\* SSL_connect, or fails: triggerError(TlsError); cleanup(); return false.
ConnectInitTls(t) ==
    /\ pc[t] = "c_tls"
    /\ \/ /\ tls' = "open"
          /\ pc' = [pc EXCEPT ![t] = "c_handshake"]
          /\ UNCHANGED <<socket, lateCallback, connectCall>>
       \/ /\ ConnectFails(t, "tls", ErrTlsError)
          /\ socket' = "none"
          /\ tls' = "none"
          /\ pc' = [pc EXCEPT ![t] = ConnectReturnPc(t, FALSE)]
    /\ UNCHANGED <<connected, running, reconnectAttempts, autoReconnect,
                     maxReconnectAttempts, secure, urlValid, ioJoinable,
                     ioThreads, terminated, hbRunning, waitingPong,
                     timerJoinable, hbMode, hbModeRead, hbMutex, autoPong,
                     rxPing, wasConnected, discCode, closeFrames,
                     nOnDisconnect, lastDisconnectCode, attemptsMade,
                     peerEnded, everOpened, disconnectReturned,
                     normalDisconnect, redundantCall, snapshot, timedOut,
                     pongOutcome, pingLog, tooLarge, closeCode, sentCloseCode,
                     now, hbInterval, hbTimeout, lastPingSent, wakeAt,
                     lastWake, pingAt, notSession>>

\* A handshake that takes any answer of the server as the upgrade.
ConnectHandshakeNoCheck(t) ==
    /\ pc[t] = "c_handshake"
    /\ \E sent \in BOOLEAN : \E response \in HandshakeResponses :
         IF sent /\ response # <<>>
         THEN /\ connectCall' = [connectCall EXCEPT ![t].response = response]
              /\ pc' = [pc EXCEPT ![t] = "c_mark"]
              /\ UNCHANGED <<socket, tls, lateCallback>>
         ELSE /\ ConnectFails(t, "handshake", ErrHandshakeFailed)
              /\ socket' = "none"
              /\ tls' = "none"
              /\ pc' = [pc EXCEPT ![t] = ConnectReturnPc(t, FALSE)]
    /\ UNCHANGED <<connected, running, reconnectAttempts, autoReconnect,
                     maxReconnectAttempts, secure, urlValid, ioJoinable,
                     ioThreads, terminated, hbRunning, waitingPong,
                     timerJoinable, hbMode, hbModeRead, hbMutex, autoPong,
                     rxPing, wasConnected, discCode, closeFrames,
                     nOnDisconnect, lastDisconnectCode, attemptsMade,
                     peerEnded, everOpened, disconnectReturned,
                     normalDisconnect, redundantCall, snapshot, timedOut,
                     pongOutcome, pingLog, tooLarge, closeCode, sentCloseCode,
                     now, hbInterval, hbTimeout, lastPingSent, wakeAt,
                     lastWake, pingAt, notSession>>

\* connect(): performHandshake() sends the upgrade request and reads the
\* response; it returns true when the response has 101 and Upgrade.  When the
\* send fails, nothing is received or the response is rejected:
\* triggerError(HandshakeFailed); cleanup(); return false.
ConnectHandshake(t) ==
    /\ pc[t] = "c_handshake"
    /\ \E sent \in BOOLEAN : \E response \in HandshakeResponses :
         IF sent /\ response # <<>> /\ Accepts(response)
         THEN /\ connectCall' = [connectCall EXCEPT ![t].response = response]
              /\ pc' = [pc EXCEPT ![t] = "c_mark"]
              /\ UNCHANGED <<socket, tls, lateCallback>>
         ELSE /\ ConnectFails(t, "handshake", ErrHandshakeFailed)
              /\ socket' = "none"
              /\ tls' = "none"
              /\ pc' = [pc EXCEPT ![t] = ConnectReturnPc(t, FALSE)]
    /\ UNCHANGED <<connected, running, reconnectAttempts, autoReconnect,
                     maxReconnectAttempts, secure, urlValid, ioJoinable,
                     ioThreads, terminated, hbRunning, waitingPong,
                     timerJoinable, hbMode, hbModeRead, hbMutex, autoPong,
                     rxPing, wasConnected, discCode, closeFrames,
                     nOnDisconnect, lastDisconnectCode, attemptsMade,
                     peerEnded, everOpened, disconnectReturned,
                     normalDisconnect, redundantCall, snapshot, timedOut,
                     pongOutcome, pingLog, tooLarge, closeCode, sentCloseCode,
                     now, hbInterval, hbTimeout, lastPingSent, wakeAt,
                     lastWake, pingAt, notSession>>

\* A connect that marks the session connected and leaves reconnectAttempts.
ConnectMarkNoReset(t) ==
    /\ pc[t] = "c_mark"
    /\ connected' = TRUE
    /\ running' = TRUE
    /\ reconnectAttempts' = reconnectAttempts
    /\ closeFrames' = 0
    /\ nOnDisconnect' = 0
    /\ peerEnded' = FALSE
    /\ closeCode' = 0
    /\ sentCloseCode' = 0
    /\ timedOut' = FALSE
    /\ tooLarge' = FALSE
    /\ everOpened' = TRUE
    /\ Publishes(t, "connected")
    /\ pc' = [pc EXCEPT ![t] = "c_spawn"]
    /\ UNCHANGED <<autoReconnect, maxReconnectAttempts, secure, urlValid, tls,
                     socket, ioJoinable, ioThreads, terminated, hbRunning,
                     waitingPong, timerJoinable, hbMode, hbModeRead, hbMutex,
                     autoPong, rxPing, wasConnected, discCode,
                     lastDisconnectCode, attemptsMade, disconnectReturned,
                     normalDisconnect, lateCallback, redundantCall, snapshot,
                     pongOutcome, pingLog, now, hbInterval, hbTimeout,
                     lastPingSent, wakeAt, lastWake, pingAt, notSession>>

\* connect(): connected = true; running = true; reconnectAttempts = 0.  A new
\* connection is established: its history starts.
ConnectMark(t) ==
    /\ pc[t] = "c_mark"
    /\ connected' = TRUE
    /\ running' = TRUE
    /\ reconnectAttempts' = 0
    /\ closeFrames' = 0
    /\ nOnDisconnect' = 0
    /\ peerEnded' = FALSE
    /\ closeCode' = 0
    /\ sentCloseCode' = 0
    /\ timedOut' = FALSE
    /\ tooLarge' = FALSE
    /\ everOpened' = TRUE
    /\ Publishes(t, "connected")
    /\ pc' = [pc EXCEPT ![t] = "c_spawn"]
    /\ UNCHANGED <<autoReconnect, maxReconnectAttempts, secure, urlValid, tls,
                     socket, ioJoinable, ioThreads, terminated, hbRunning,
                     waitingPong, timerJoinable, hbMode, hbModeRead, hbMutex,
                     autoPong, rxPing, wasConnected, discCode,
                     lastDisconnectCode, attemptsMade, disconnectReturned,
                     normalDisconnect, lateCallback, redundantCall, snapshot,
                     pongOutcome, pingLog, now, hbInterval, hbTimeout,
                     lastPingSent, wakeAt, lastWake, pingAt, notSession>>

\* connect(): std::thread(&Impl::ioLoop, this) is constructed: a new thread
\* runs ioLoop.  The model follows it when no other I/O thread is alive.
ConnectSpawn(t) ==
    /\ pc[t] = "c_spawn"
    /\ ioThreads' = ioThreads + 1
    /\ Publishes(t, "ioThread")
    /\ pc' = IF pc["io"] = "none"
             THEN [pc EXCEPT ![t] = "c_assign", !["io"] = "loop"]
             ELSE [pc EXCEPT ![t] = "c_assign"]
    /\ UNCHANGED <<connected, running, reconnectAttempts, autoReconnect,
                     maxReconnectAttempts, secure, urlValid, tls, socket,
                     ioJoinable, terminated, hbRunning, waitingPong,
                     timerJoinable, hbMode, hbModeRead, hbMutex, autoPong,
                     rxPing, wasConnected, discCode, closeFrames,
                     nOnDisconnect, lastDisconnectCode, attemptsMade,
                     peerEnded, everOpened, disconnectReturned,
                     normalDisconnect, lateCallback, redundantCall, snapshot,
                     timedOut, pongOutcome, pingLog, tooLarge, closeCode,
                     sentCloseCode, now, hbInterval, hbTimeout, lastPingSent,
                     wakeAt, lastWake, pingAt, notSession>>

\* connect(): ioThread = <the new thread>.  Move-assigning to a joinable
\* std::thread calls std::terminate().
ConnectAssign(t) ==
    /\ pc[t] = "c_assign"
    /\ IF ioJoinable
       THEN /\ terminated' = TRUE
            /\ pc' = [th \in DOMAIN pc |-> "dead"]
            /\ UNCHANGED ioJoinable
       ELSE /\ ioJoinable' = TRUE
            /\ pc' = [pc EXCEPT ![t] = "c_hb"]
            /\ UNCHANGED terminated
    /\ UNCHANGED <<connected, running, reconnectAttempts, autoReconnect,
                     maxReconnectAttempts, secure, urlValid, tls, socket,
                     ioThreads, hbRunning, waitingPong, timerJoinable, hbMode,
                     hbModeRead, hbMutex, autoPong, rxPing, wasConnected,
                     discCode, closeFrames, nOnDisconnect, lastDisconnectCode,
                     attemptsMade, peerEnded, everOpened, disconnectReturned,
                     normalDisconnect, lateCallback, redundantCall, snapshot,
                     timedOut, pongOutcome, pingLog, tooLarge, connectCall,
                     closeCode, sentCloseCode, now, hbInterval, hbTimeout,
                     lastPingSent, wakeAt, lastWake, pingAt, notSession>>

\* connect(): heartbeat->start(...), under mutex_: returns at once when
\* running_ or when the mode is Disabled, else running_ = true;
\* waitingPong_ = false; timerThread_ = std::thread(timerLoop).
ConnectStartHeartbeat(t) ==
    /\ pc[t] = "c_hb"
    /\ hbMutex = "free"
    /\ IF hbRunning \/ hbMode = "Disabled"
       THEN /\ pc' = [pc EXCEPT ![t] = "c_cb"]
            /\ UNCHANGED <<hbRunning, waitingPong, timerJoinable, terminated, connectCall>>
       ELSE /\ hbRunning' = TRUE
            /\ Publishes(t, "heartbeat")
            /\ waitingPong' = FALSE
            /\ timerJoinable' = TRUE
            /\ terminated' = timerJoinable
            /\ pc' = IF timerJoinable
                     THEN [th \in DOMAIN pc |-> "dead"]
                     ELSE [pc EXCEPT ![t] = "c_cb", !["hb"] = "top"]
    /\ UNCHANGED <<connected, running, reconnectAttempts, autoReconnect,
                     maxReconnectAttempts, secure, urlValid, tls, socket,
                     ioJoinable, ioThreads, hbMode, hbModeRead, hbMutex,
                     autoPong, rxPing, wasConnected, discCode, closeFrames,
                     nOnDisconnect, lastDisconnectCode, attemptsMade,
                     peerEnded, everOpened, disconnectReturned,
                     normalDisconnect, lateCallback, redundantCall, snapshot,
                     timedOut, pongOutcome, pingLog, tooLarge, closeCode,
                     sentCloseCode, now, hbInterval, hbTimeout, lastPingSent,
                     wakeAt, lastWake, pingAt, notSession>>

\* connect(): triggerConnect(); return true.
ConnectTriggerConnect(t) ==
    /\ pc[t] = "c_cb"
    /\ InvokeCallback
    /\ Publishes(t, "onConnect")
    /\ pc' = [pc EXCEPT ![t] = ConnectReturnPc(t, TRUE)]
    /\ UNCHANGED <<connected, running, reconnectAttempts, autoReconnect,
                     maxReconnectAttempts, secure, urlValid, tls, socket,
                     ioJoinable, ioThreads, terminated, hbRunning,
                     waitingPong, timerJoinable, hbMode, hbModeRead, hbMutex,
                     autoPong, rxPing, wasConnected, discCode, closeFrames,
                     nOnDisconnect, lastDisconnectCode, attemptsMade,
                     peerEnded, everOpened, disconnectReturned,
                     normalDisconnect, redundantCall, snapshot, timedOut,
                     pongOutcome, pingLog, tooLarge, closeCode, sentCloseCode,
                     now, hbInterval, hbTimeout, lastPingSent, wakeAt,
                     lastWake, pingAt, notSession>>

\* The user's connect() has returned.
ConnectReturn ==
    /\ pc["user"] \in {"c_ret_true", "c_ret_false"}
    /\ connectCall' = [connectCall EXCEPT !["user"] = NoCall]
    /\ pc' = [pc EXCEPT !["user"] = "idle"]
    /\ UNCHANGED <<connected, running, reconnectAttempts, autoReconnect,
                     maxReconnectAttempts, secure, urlValid, tls, socket,
                     ioJoinable, ioThreads, terminated, hbRunning,
                     waitingPong, timerJoinable, hbMode, hbModeRead, hbMutex,
                     autoPong, rxPing, wasConnected, discCode, closeFrames,
                     nOnDisconnect, lastDisconnectCode, attemptsMade,
                     peerEnded, everOpened, disconnectReturned,
                     normalDisconnect, lateCallback, redundantCall, snapshot,
                     timedOut, pongOutcome, pingLog, tooLarge, closeCode,
                     sentCloseCode, now, hbInterval, hbTimeout, lastPingSent,
                     wakeAt, lastWake, pingAt, notSession>>

\* A disconnect that reads connected without clearing it.
DiscLoadConnected(code) ==
    /\ pc["user"] = "idle"
    /\ wasConnected' = connected
    /\ connected' = connected
    /\ discCode' = code
    /\ normalDisconnect' = (normalDisconnect \/ code = CloseNormal)
    /\ redundantCall' = (disconnectReturned \/ ~everOpened)
    /\ snapshot' = IF disconnectReturned \/ ~everOpened THEN SessionState ELSE <<>>
    /\ pc' = [pc EXCEPT !["user"] = "d_running"]
    /\ UNCHANGED <<running, reconnectAttempts, autoReconnect,
                     maxReconnectAttempts, secure, urlValid, tls, socket,
                     ioJoinable, ioThreads, terminated, hbRunning,
                     waitingPong, timerJoinable, hbMode, hbModeRead, hbMutex,
                     autoPong, rxPing, closeFrames, nOnDisconnect,
                     lastDisconnectCode, attemptsMade, peerEnded, everOpened,
                     disconnectReturned, lateCallback, timedOut, pongOutcome,
                     pingLog, tooLarge, connectCall, closeCode, sentCloseCode,
                     now, hbInterval, hbTimeout, lastPingSent, wakeAt,
                     lastWake, pingAt, notSession>>

\* The user calls disconnect(code):
\* wasConnected = connected.exchange(false).
DiscExchange(code) ==
    /\ pc["user"] = "idle"
    /\ wasConnected' = connected
    /\ connected' = FALSE
    /\ discCode' = code
    /\ normalDisconnect' = (normalDisconnect \/ code = CloseNormal)
    /\ redundantCall' = (disconnectReturned \/ ~everOpened)
    /\ snapshot' = IF disconnectReturned \/ ~everOpened THEN SessionState ELSE <<>>
    /\ pc' = [pc EXCEPT !["user"] = "d_running"]
    /\ UNCHANGED <<running, reconnectAttempts, autoReconnect,
                     maxReconnectAttempts, secure, urlValid, tls, socket,
                     ioJoinable, ioThreads, terminated, hbRunning,
                     waitingPong, timerJoinable, hbMode, hbModeRead, hbMutex,
                     autoPong, rxPing, closeFrames, nOnDisconnect,
                     lastDisconnectCode, attemptsMade, peerEnded, everOpened,
                     disconnectReturned, lateCallback, timedOut, pongOutcome,
                     pingLog, tooLarge, connectCall, closeCode, sentCloseCode,
                     now, hbInterval, hbTimeout, lastPingSent, wakeAt,
                     lastWake, pingAt, notSession>>

\* disconnect(): running.store(false).
DiscClearRunning ==
    /\ pc["user"] = "d_running"
    /\ running' = FALSE
    /\ pc' = [pc EXCEPT !["user"] = "d_hbstop"]
    /\ UNCHANGED <<connected, reconnectAttempts, autoReconnect,
                     maxReconnectAttempts, secure, urlValid, tls, socket,
                     ioJoinable, ioThreads, terminated, hbRunning,
                     waitingPong, timerJoinable, hbMode, hbModeRead, hbMutex,
                     autoPong, rxPing, wasConnected, discCode, closeFrames,
                     nOnDisconnect, lastDisconnectCode, attemptsMade,
                     peerEnded, everOpened, disconnectReturned,
                     normalDisconnect, lateCallback, redundantCall, snapshot,
                     timedOut, pongOutcome, pingLog, tooLarge, connectCall,
                     closeCode, sentCloseCode, now, hbInterval, hbTimeout,
                     lastPingSent, wakeAt, lastWake, pingAt, notSession>>

\* disconnect(): heartbeat->stop(), under its mutex: return if !running_,
\* else running_ = false; then notify_all.
DiscStopHeartbeat ==
    /\ pc["user"] = "d_hbstop"
    /\ hbMutex = "free"
    /\ IF hbRunning
       THEN hbRunning' = FALSE /\ pc' = [pc EXCEPT !["user"] = "d_hbjoin"]
       ELSE UNCHANGED hbRunning /\ pc' = [pc EXCEPT !["user"] = "d_close"]
    /\ UNCHANGED <<connected, running, reconnectAttempts, autoReconnect,
                     maxReconnectAttempts, secure, urlValid, tls, socket,
                     ioJoinable, ioThreads, terminated, waitingPong,
                     timerJoinable, hbMode, hbModeRead, hbMutex, autoPong,
                     rxPing, wasConnected, discCode, closeFrames,
                     nOnDisconnect, lastDisconnectCode, attemptsMade,
                     peerEnded, everOpened, disconnectReturned,
                     normalDisconnect, lateCallback, redundantCall, snapshot,
                     timedOut, pongOutcome, pingLog, tooLarge, connectCall,
                     closeCode, sentCloseCode, now, hbInterval, hbTimeout,
                     lastPingSent, wakeAt, lastWake, pingAt, notSession>>

\* A stop() that does not wait for the worker to leave timerLoop.
DiscJoinHeartbeatNoWait ==
    /\ pc["user"] = "d_hbjoin"
    /\ timerJoinable' = FALSE
    /\ pc' = [pc EXCEPT !["user"] = "d_close"]
    /\ UNCHANGED <<connected, running, reconnectAttempts, autoReconnect,
                     maxReconnectAttempts, secure, urlValid, tls, socket,
                     ioJoinable, ioThreads, terminated, hbRunning,
                     waitingPong, hbMode, hbModeRead, hbMutex, autoPong,
                     rxPing, wasConnected, discCode, closeFrames,
                     nOnDisconnect, lastDisconnectCode, attemptsMade,
                     peerEnded, everOpened, disconnectReturned,
                     normalDisconnect, lateCallback, redundantCall, snapshot,
                     timedOut, pongOutcome, pingLog, tooLarge, connectCall,
                     closeCode, sentCloseCode, now, hbInterval, hbTimeout,
                     lastPingSent, wakeAt, lastWake, pingAt, notSession>>

\* heartbeat->stop(): if (timerThread_.joinable()) timerThread_.join().
DiscJoinHeartbeat ==
    /\ pc["user"] = "d_hbjoin"
    /\ timerJoinable => pc["hb"] = "none"
    /\ timerJoinable' = FALSE
    /\ pc' = [pc EXCEPT !["user"] = "d_close"]
    /\ UNCHANGED <<connected, running, reconnectAttempts, autoReconnect,
                     maxReconnectAttempts, secure, urlValid, tls, socket,
                     ioJoinable, ioThreads, terminated, hbRunning,
                     waitingPong, hbMode, hbModeRead, hbMutex, autoPong,
                     rxPing, wasConnected, discCode, closeFrames,
                     nOnDisconnect, lastDisconnectCode, attemptsMade,
                     peerEnded, everOpened, disconnectReturned,
                     normalDisconnect, lateCallback, redundantCall, snapshot,
                     timedOut, pongOutcome, pingLog, tooLarge, connectCall,
                     closeCode, sentCloseCode, now, hbInterval, hbTimeout,
                     lastPingSent, wakeAt, lastWake, pingAt, notSession>>

\* disconnect(): if (wasConnected) sendCloseFrame(code); waitCv.notify_all().
DiscSendClose ==
    /\ pc["user"] = "d_close"
    /\ closeFrames' = IF wasConnected THEN closeFrames + 1 ELSE closeFrames
    /\ sentCloseCode' = IF wasConnected THEN discCode ELSE sentCloseCode
    /\ pc' = [pc EXCEPT !["user"] = "d_join"]
    /\ UNCHANGED <<connected, running, reconnectAttempts, autoReconnect,
                     maxReconnectAttempts, secure, urlValid, tls, socket,
                     ioJoinable, ioThreads, terminated, hbRunning,
                     waitingPong, timerJoinable, hbMode, hbModeRead, hbMutex,
                     autoPong, rxPing, wasConnected, discCode, nOnDisconnect,
                     lastDisconnectCode, attemptsMade, peerEnded, everOpened,
                     disconnectReturned, normalDisconnect, lateCallback,
                     redundantCall, snapshot, timedOut, pongOutcome, pingLog,
                     tooLarge, connectCall, closeCode, now, hbInterval,
                     hbTimeout, lastPingSent, wakeAt, lastWake, pingAt,
                     notSession>>

\* disconnect(): if (ioThread.joinable()) ioThread.join().
DiscJoinIo ==
    /\ pc["user"] = "d_join"
    /\ ioJoinable => pc["io"] = "none"
    /\ ioJoinable' = FALSE
    /\ pc' = [pc EXCEPT !["user"] = "d_cleanup"]
    /\ UNCHANGED <<connected, running, reconnectAttempts, autoReconnect,
                     maxReconnectAttempts, secure, urlValid, tls, socket,
                     ioThreads, terminated, hbRunning, waitingPong,
                     timerJoinable, hbMode, hbModeRead, hbMutex, autoPong,
                     rxPing, wasConnected, discCode, closeFrames,
                     nOnDisconnect, lastDisconnectCode, attemptsMade,
                     peerEnded, everOpened, disconnectReturned,
                     normalDisconnect, lateCallback, redundantCall, snapshot,
                     timedOut, pongOutcome, pingLog, tooLarge, connectCall,
                     closeCode, sentCloseCode, now, hbInterval, hbTimeout,
                     lastPingSent, wakeAt, lastWake, pingAt, notSession>>

\* disconnect(): cleanup() frees the TLS objects and closes the socket.
DiscCleanup ==
    /\ pc["user"] = "d_cleanup"
    /\ socket' = "none"
    /\ tls' = "none"
    /\ pc' = [pc EXCEPT !["user"] = "d_cb"]
    /\ UNCHANGED <<connected, running, reconnectAttempts, autoReconnect,
                     maxReconnectAttempts, secure, urlValid, ioJoinable,
                     ioThreads, terminated, hbRunning, waitingPong,
                     timerJoinable, hbMode, hbModeRead, hbMutex, autoPong,
                     rxPing, wasConnected, discCode, closeFrames,
                     nOnDisconnect, lastDisconnectCode, attemptsMade,
                     peerEnded, everOpened, disconnectReturned,
                     normalDisconnect, lateCallback, redundantCall, snapshot,
                     timedOut, pongOutcome, pingLog, tooLarge, connectCall,
                     closeCode, sentCloseCode, now, hbInterval, hbTimeout,
                     lastPingSent, wakeAt, lastWake, pingAt, notSession>>

\* disconnect(): if (wasConnected) triggerDisconnect(code).
DiscTriggerDisconnect ==
    /\ pc["user"] = "d_cb"
    /\ IF wasConnected
       THEN /\ InvokeCallback
            /\ nOnDisconnect' = nOnDisconnect + 1
            /\ lastDisconnectCode' = discCode
       ELSE UNCHANGED <<lateCallback, nOnDisconnect, lastDisconnectCode>>
    /\ pc' = [pc EXCEPT !["user"] = "d_ret"]
    /\ UNCHANGED <<connected, running, reconnectAttempts, autoReconnect,
                     maxReconnectAttempts, secure, urlValid, tls, socket,
                     ioJoinable, ioThreads, terminated, hbRunning,
                     waitingPong, timerJoinable, hbMode, hbModeRead, hbMutex,
                     autoPong, rxPing, wasConnected, discCode, closeFrames,
                     attemptsMade, peerEnded, everOpened, disconnectReturned,
                     normalDisconnect, redundantCall, snapshot, timedOut,
                     pongOutcome, pingLog, tooLarge, connectCall, closeCode,
                     sentCloseCode, now, hbInterval, hbTimeout, lastPingSent,
                     wakeAt, lastWake, pingAt, notSession>>

\* disconnect() returns.
DiscReturn ==
    /\ pc["user"] = "d_ret"
    /\ disconnectReturned' = TRUE
    /\ redundantCall' = FALSE
    /\ snapshot' = <<>>
    /\ pc' = [pc EXCEPT !["user"] = "idle"]
    /\ UNCHANGED <<connected, running, reconnectAttempts, autoReconnect,
                     maxReconnectAttempts, secure, urlValid, tls, socket,
                     ioJoinable, ioThreads, terminated, hbRunning,
                     waitingPong, timerJoinable, hbMode, hbModeRead, hbMutex,
                     autoPong, rxPing, wasConnected, discCode, closeFrames,
                     nOnDisconnect, lastDisconnectCode, attemptsMade,
                     peerEnded, everOpened, normalDisconnect, lateCallback,
                     timedOut, pongOutcome, pingLog, tooLarge, connectCall,
                     closeCode, sentCloseCode, now, hbInterval, hbTimeout,
                     lastPingSent, wakeAt, lastWake, pingAt, notSession>>

\* The user calls wait(): if (ioThread.joinable()) ioThread.join(); the call
\* returns once the I/O thread has left ioLoop.
UserWait ==
    /\ pc["user"] = "idle"
    /\ ioJoinable
    /\ pc["io"] = "none"
    /\ ioJoinable' = FALSE
    /\ UNCHANGED <<connected, pc, running, reconnectAttempts, autoReconnect,
                     maxReconnectAttempts, secure, urlValid, tls, socket,
                     ioThreads, terminated, hbRunning, waitingPong,
                     timerJoinable, hbMode, hbModeRead, hbMutex, autoPong,
                     rxPing, wasConnected, discCode, closeFrames,
                     nOnDisconnect, lastDisconnectCode, attemptsMade,
                     peerEnded, everOpened, disconnectReturned,
                     normalDisconnect, lateCallback, redundantCall, snapshot,
                     timedOut, pongOutcome, pingLog, tooLarge, connectCall,
                     closeCode, sentCloseCode, now, hbInterval, hbTimeout,
                     lastPingSent, wakeAt, lastWake, pingAt, notSession>>

\* ioLoop(): while (running.load()) { drain sendQueue (nothing is queued
\* here: pop() returns nullopt); ... }
IoLoopTop ==
    /\ pc["io"] = "loop"
    /\ IF running
       THEN empty /\ pc' = [pc EXCEPT !["io"] = "poll"]
       ELSE pc' = [pc EXCEPT !["io"] = "exit"]
    /\ UNCHANGED <<connected, running, reconnectAttempts, autoReconnect,
                     maxReconnectAttempts, secure, urlValid, tls, socket,
                     ioJoinable, ioThreads, terminated, hbRunning,
                     waitingPong, timerJoinable, hbMode, hbModeRead, hbMutex,
                     autoPong, rxPing, wasConnected, discCode, closeFrames,
                     nOnDisconnect, lastDisconnectCode, attemptsMade,
                     peerEnded, everOpened, disconnectReturned,
                     normalDisconnect, lateCallback, redundantCall, snapshot,
                     timedOut, pongOutcome, pingLog, tooLarge, connectCall,
                     closeCode, sentCloseCode, now, hbInterval, hbTimeout,
                     lastPingSent, wakeAt, lastWake, pingAt, notSession>>

\* ioLoop(): waitForData(100) times out: continue.
IoNoData ==
    /\ pc["io"] = "poll"
    /\ pc' = [pc EXCEPT !["io"] = "loop"]
    /\ UNCHANGED <<connected, running, reconnectAttempts, autoReconnect,
                     maxReconnectAttempts, secure, urlValid, tls, socket,
                     ioJoinable, ioThreads, terminated, hbRunning,
                     waitingPong, timerJoinable, hbMode, hbModeRead, hbMutex,
                     autoPong, rxPing, wasConnected, discCode, closeFrames,
                     nOnDisconnect, lastDisconnectCode, attemptsMade,
                     peerEnded, everOpened, disconnectReturned,
                     normalDisconnect, lateCallback, redundantCall, snapshot,
                     timedOut, pongOutcome, pingLog, tooLarge, connectCall,
                     closeCode, sentCloseCode, now, hbInterval, hbTimeout,
                     lastPingSent, wakeAt, lastWake, pingAt, notSession>>

\* ioLoop(): readFrame() reads the header of a Text or Binary frame that
\* declares len payload bytes.  If len > config.maxMessageSize:
\* triggerError(MessageTooLarge) and readFrame returns false.  Else the payload
\* is read, handleMessage invokes onRawMessage (and onMessage) and readFrame
\* returns true.
IoReadMessage(len) ==
    /\ pc["io"] = "poll"
    /\ socket = "open"
    /\ InvokeCallback
    /\ IF len > MaxMessageSizeCfg
       THEN /\ tooLarge' = TRUE
            /\ peerEnded' = TRUE
            /\ pc' = [pc EXCEPT !["io"] = "chk"]
       ELSE /\ pc' = [pc EXCEPT !["io"] = "loop"]
            /\ UNCHANGED <<tooLarge, peerEnded>>
    /\ UNCHANGED <<connected, running, reconnectAttempts, autoReconnect,
                     maxReconnectAttempts, secure, urlValid, tls, socket,
                     ioJoinable, ioThreads, terminated, hbRunning,
                     waitingPong, timerJoinable, hbMode, hbModeRead, hbMutex,
                     autoPong, rxPing, wasConnected, discCode, closeFrames,
                     nOnDisconnect, lastDisconnectCode, attemptsMade,
                     everOpened, disconnectReturned, normalDisconnect,
                     redundantCall, snapshot, timedOut, pongOutcome, pingLog,
                     connectCall, closeCode, sentCloseCode, now, hbInterval,
                     hbTimeout, lastPingSent, wakeAt, lastWake, pingAt,
                     notSession>>

\* ioLoop(): readFrame() reads a Ping frame and calls handlePing(payload).
IoReadPing(payload) ==
    /\ pc["io"] = "poll"
    /\ socket = "open"
    /\ rxPing' = payload
    /\ pingLog' = <<>>
    /\ pongOutcome' = "none"
    /\ pc' = [pc EXCEPT !["io"] = "ping_pong"]
    /\ UNCHANGED <<connected, running, reconnectAttempts, autoReconnect,
                     maxReconnectAttempts, secure, urlValid, tls, socket,
                     ioJoinable, ioThreads, terminated, hbRunning,
                     waitingPong, timerJoinable, hbMode, hbModeRead, hbMutex,
                     autoPong, wasConnected, discCode, closeFrames,
                     nOnDisconnect, lastDisconnectCode, attemptsMade,
                     peerEnded, everOpened, disconnectReturned,
                     normalDisconnect, lateCallback, redundantCall, snapshot,
                     timedOut, tooLarge, connectCall, closeCode,
                     sentCloseCode, now, hbInterval, hbTimeout, lastPingSent,
                     wakeAt, lastWake, pingAt, notSession>>

\* An auto-pong that answers with an empty payload.
HandlePingPongEmpty ==
    /\ pc["io"] = "ping_pong"
    /\ \/ /\ ~autoPong
          /\ pongOutcome' = "disabled"
          /\ UNCHANGED pingLog
       \/ /\ autoPong /\ ~connected
          /\ pongOutcome' = "notConnected"
          /\ UNCHANGED pingLog
       \/ /\ autoPong /\ connected
          /\ \E key \in MaskKeys : \E written \in BOOLEAN :
               IF written
               THEN /\ pongOutcome' = "written"
                    /\ pingLog' = Append(pingLog,
                           [ev |-> "pong", frame |-> BuildFrame(OpPong, <<>>, key)])
               ELSE /\ pongOutcome' = "writeFailed"
                    /\ UNCHANGED pingLog
    /\ pc' = [pc EXCEPT !["io"] = "ping_cb"]
    /\ UNCHANGED <<connected, running, reconnectAttempts, autoReconnect,
                     maxReconnectAttempts, secure, urlValid, tls, socket,
                     ioJoinable, ioThreads, terminated, hbRunning,
                     waitingPong, timerJoinable, hbMode, hbModeRead, hbMutex,
                     autoPong, rxPing, wasConnected, discCode, closeFrames,
                     nOnDisconnect, lastDisconnectCode, attemptsMade,
                     peerEnded, everOpened, disconnectReturned,
                     normalDisconnect, lateCallback, redundantCall, snapshot,
                     timedOut, tooLarge, connectCall, closeCode,
                     sentCloseCode, now, hbInterval, hbTimeout, lastPingSent,
                     wakeAt, lastWake, pingAt, notSession>>

\* handlePing(): if (config.ping.autoPong) sendPongFrame(payload):
\* sendPongFrame returns false when !connected, else sendFrame(Pong, payload)
\* builds the masked frame and rawSend writes it, or fails.
HandlePingPong ==
    /\ pc["io"] = "ping_pong"
    /\ \/ /\ ~autoPong
          /\ pongOutcome' = "disabled"
          /\ UNCHANGED pingLog
       \/ /\ autoPong /\ ~connected
          /\ pongOutcome' = "notConnected"
          /\ UNCHANGED pingLog
       \/ /\ autoPong /\ connected
          /\ \E key \in MaskKeys : \E written \in BOOLEAN :
               IF written
               THEN /\ pongOutcome' = "written"
                    /\ pingLog' = Append(pingLog,
                           [ev |-> "pong", frame |-> BuildFrame(OpPong, rxPing, key)])
               ELSE /\ pongOutcome' = "writeFailed"
                    /\ UNCHANGED pingLog
    /\ pc' = [pc EXCEPT !["io"] = "ping_cb"]
    /\ UNCHANGED <<connected, running, reconnectAttempts, autoReconnect,
                     maxReconnectAttempts, secure, urlValid, tls, socket,
                     ioJoinable, ioThreads, terminated, hbRunning,
                     waitingPong, timerJoinable, hbMode, hbModeRead, hbMutex,
                     autoPong, rxPing, wasConnected, discCode, closeFrames,
                     nOnDisconnect, lastDisconnectCode, attemptsMade,
                     peerEnded, everOpened, disconnectReturned,
                     normalDisconnect, lateCallback, redundantCall, snapshot,
                     timedOut, tooLarge, connectCall, closeCode,
                     sentCloseCode, now, hbInterval, hbTimeout, lastPingSent,
                     wakeAt, lastWake, pingAt, notSession>>

\* handlePing(): onPingCb(payload).
HandlePingCallback ==
    /\ pc["io"] = "ping_cb"
    /\ InvokeCallback
    /\ pingLog' = Append(pingLog, [ev |-> "onPing", payload |-> rxPing])
    /\ pc' = [pc EXCEPT !["io"] = "ping_done"]
    /\ UNCHANGED <<connected, running, reconnectAttempts, autoReconnect,
                     maxReconnectAttempts, secure, urlValid, tls, socket,
                     ioJoinable, ioThreads, terminated, hbRunning,
                     waitingPong, timerJoinable, hbMode, hbModeRead, hbMutex,
                     autoPong, rxPing, wasConnected, discCode, closeFrames,
                     nOnDisconnect, lastDisconnectCode, attemptsMade,
                     peerEnded, everOpened, disconnectReturned,
                     normalDisconnect, redundantCall, snapshot, timedOut,
                     pongOutcome, tooLarge, connectCall, closeCode,
                     sentCloseCode, now, hbInterval, hbTimeout, lastPingSent,
                     wakeAt, lastWake, pingAt, notSession>>

\* handlePing() returns and readFrame returns true.
IoPingReturn ==
    /\ pc["io"] = "ping_done"
    /\ rxPing' = <<>>
    /\ pingLog' = <<>>
    /\ pongOutcome' = "none"
    /\ pc' = [pc EXCEPT !["io"] = "loop"]
    /\ UNCHANGED <<connected, running, reconnectAttempts, autoReconnect,
                     maxReconnectAttempts, secure, urlValid, tls, socket,
                     ioJoinable, ioThreads, terminated, hbRunning,
                     waitingPong, timerJoinable, hbMode, hbModeRead, hbMutex,
                     autoPong, wasConnected, discCode, closeFrames,
                     nOnDisconnect, lastDisconnectCode, attemptsMade,
                     peerEnded, everOpened, disconnectReturned,
                     normalDisconnect, lateCallback, redundantCall, snapshot,
                     timedOut, tooLarge, connectCall, closeCode,
                     sentCloseCode, now, hbInterval, hbTimeout, lastPingSent,
                     wakeAt, lastWake, pingAt, notSession>>

\* ioLoop(): readFrame() reads a Pong frame: handlePong calls
\* heartbeat->onPongReceived() and invokes onPong; readFrame returns true.
IoReadPong ==
    /\ pc["io"] = "poll"
    /\ socket = "open"
    /\ waitingPong' = FALSE
    /\ InvokeCallback
    /\ pc' = [pc EXCEPT !["io"] = "loop"]
    /\ UNCHANGED <<connected, running, reconnectAttempts, autoReconnect,
                     maxReconnectAttempts, secure, urlValid, tls, socket,
                     ioJoinable, ioThreads, terminated, hbRunning,
                     timerJoinable, hbMode, hbModeRead, hbMutex, autoPong,
                     rxPing, wasConnected, discCode, closeFrames,
                     nOnDisconnect, lastDisconnectCode, attemptsMade,
                     peerEnded, everOpened, disconnectReturned,
                     normalDisconnect, redundantCall, snapshot, timedOut,
                     pongOutcome, pingLog, tooLarge, connectCall, closeCode,
                     sentCloseCode, now, hbInterval, hbTimeout, lastPingSent,
                     wakeAt, lastWake, pingAt, notSession>>

\* ioLoop(): readFrame() reads a Close frame: handleClose computes the code
\* of the payload, stores connected = false and running = false, and returns;
\* readFrame returns false.
IoReadClose(payload) ==
    /\ pc["io"] = "poll"
    /\ socket = "open"
    /\ closeCode' = CloseCodeOf(payload)
    /\ connected' = FALSE
    /\ running' = FALSE
    /\ peerEnded' = TRUE
    /\ pc' = [pc EXCEPT !["io"] = "chk"]
    /\ UNCHANGED <<reconnectAttempts, autoReconnect, maxReconnectAttempts,
                     secure, urlValid, tls, socket, ioJoinable, ioThreads,
                     terminated, hbRunning, waitingPong, timerJoinable,
                     hbMode, hbModeRead, hbMutex, autoPong, rxPing,
                     wasConnected, discCode, closeFrames, nOnDisconnect,
                     lastDisconnectCode, attemptsMade, everOpened,
                     disconnectReturned, normalDisconnect, lateCallback,
                     redundantCall, snapshot, timedOut, pongOutcome, pingLog,
                     tooLarge, connectCall, sentCloseCode, now, hbInterval,
                     hbTimeout, lastPingSent, wakeAt, lastWake, pingAt,
                     notSession>>

\* ioLoop(): readFrame() fails (rawRecv reports EOF or a read error): it
\* returns false.
IoReadFail ==
    /\ pc["io"] = "poll"
    /\ socket = "open"
    /\ peerEnded' = TRUE
    /\ pc' = [pc EXCEPT !["io"] = "chk"]
    /\ UNCHANGED <<connected, running, reconnectAttempts, autoReconnect,
                     maxReconnectAttempts, secure, urlValid, tls, socket,
                     ioJoinable, ioThreads, terminated, hbRunning,
                     waitingPong, timerJoinable, hbMode, hbModeRead, hbMutex,
                     autoPong, rxPing, wasConnected, discCode, closeFrames,
                     nOnDisconnect, lastDisconnectCode, attemptsMade,
                     everOpened, disconnectReturned, normalDisconnect,
                     lateCallback, redundantCall, snapshot, timedOut,
                     pongOutcome, pingLog, tooLarge, connectCall, closeCode,
                     sentCloseCode, now, hbInterval, hbTimeout, lastPingSent,
                     wakeAt, lastWake, pingAt, notSession>>

\* ioLoop(): if (connected.load()) handleDisconnect(); break.
IoCheckConnected ==
    /\ pc["io"] = "chk"
    /\ pc' = [pc EXCEPT !["io"] = IF connected THEN "hd_store" ELSE "exit"]
    /\ UNCHANGED <<connected, running, reconnectAttempts, autoReconnect,
                     maxReconnectAttempts, secure, urlValid, tls, socket,
                     ioJoinable, ioThreads, terminated, hbRunning,
                     waitingPong, timerJoinable, hbMode, hbModeRead, hbMutex,
                     autoPong, rxPing, wasConnected, discCode, closeFrames,
                     nOnDisconnect, lastDisconnectCode, attemptsMade,
                     peerEnded, everOpened, disconnectReturned,
                     normalDisconnect, lateCallback, redundantCall, snapshot,
                     timedOut, pongOutcome, pingLog, tooLarge, connectCall,
                     closeCode, sentCloseCode, now, hbInterval, hbTimeout,
                     lastPingSent, wakeAt, lastWake, pingAt, notSession>>

\* handleDisconnect(): connected.store(false).
HdStoreConnected ==
    /\ pc["io"] = "hd_store"
    /\ connected' = FALSE
    /\ attemptsMade' = 0
    /\ pc' = [pc EXCEPT !["io"] = "hd_check"]
    /\ UNCHANGED <<running, reconnectAttempts, autoReconnect,
                     maxReconnectAttempts, secure, urlValid, tls, socket,
                     ioJoinable, ioThreads, terminated, hbRunning,
                     waitingPong, timerJoinable, hbMode, hbModeRead, hbMutex,
                     autoPong, rxPing, wasConnected, discCode, closeFrames,
                     nOnDisconnect, lastDisconnectCode, peerEnded, everOpened,
                     disconnectReturned, normalDisconnect, lateCallback,
                     redundantCall, snapshot, timedOut, pongOutcome, pingLog,
                     tooLarge, connectCall, closeCode, sentCloseCode, now,
                     hbInterval, hbTimeout, lastPingSent, wakeAt, lastWake,
                     pingAt, notSession>>

\* handleDisconnect(): if (config.autoReconnect && reconnectAttempts <
\* config.maxReconnectAttempts) { reconnectAttempts++; ... }
HdCheckReconnect ==
    /\ pc["io"] = "hd_check"
    /\ IF autoReconnect /\ reconnectAttempts < maxReconnectAttempts
       THEN /\ reconnectAttempts' = reconnectAttempts + 1
            /\ attemptsMade' = attemptsMade + 1
            /\ pc' = [pc EXCEPT !["io"] = "hd_backoff"]
       ELSE /\ pc' = [pc EXCEPT !["io"] = "hd_giveup"]
            /\ UNCHANGED <<reconnectAttempts, attemptsMade>>
    /\ UNCHANGED <<connected, running, autoReconnect, maxReconnectAttempts,
                     secure, urlValid, tls, socket, ioJoinable, ioThreads,
                     terminated, hbRunning, waitingPong, timerJoinable,
                     hbMode, hbModeRead, hbMutex, autoPong, rxPing,
                     wasConnected, discCode, closeFrames, nOnDisconnect,
                     lastDisconnectCode, peerEnded, everOpened,
                     disconnectReturned, normalDisconnect, lateCallback,
                     redundantCall, snapshot, timedOut, pongOutcome, pingLog,
                     tooLarge, connectCall, closeCode, sentCloseCode, now,
                     hbInterval, hbTimeout, lastPingSent, wakeAt, lastWake,
                     pingAt, notSession>>

\* handleDisconnect(): sleep_for(1 s * reconnectAttempts); cleanup(); then
\* connect() is entered.
HdBackoffCleanup ==
    /\ pc["io"] = "hd_backoff"
    /\ socket' = "none"
    /\ tls' = "none"
    /\ connectCall' = [connectCall EXCEPT !["io"] = NoCall]
    /\ pc' = [pc EXCEPT !["io"] = "c_url"]
    /\ UNCHANGED <<connected, running, reconnectAttempts, autoReconnect,
                     maxReconnectAttempts, secure, urlValid, ioJoinable,
                     ioThreads, terminated, hbRunning, waitingPong,
                     timerJoinable, hbMode, hbModeRead, hbMutex, autoPong,
                     rxPing, wasConnected, discCode, closeFrames,
                     nOnDisconnect, lastDisconnectCode, attemptsMade,
                     peerEnded, everOpened, disconnectReturned,
                     normalDisconnect, lateCallback, redundantCall, snapshot,
                     timedOut, pongOutcome, pingLog, tooLarge, closeCode,
                     sentCloseCode, now, hbInterval, hbTimeout, lastPingSent,
                     wakeAt, lastWake, pingAt, notSession>>

\* handleDisconnect(): no attempt was made, or connect() returned false:
\* running.store(false); triggerDisconnect(AbnormalClosure).
HdGiveUp ==
    /\ pc["io"] = "hd_giveup"
    /\ running' = FALSE
    /\ InvokeCallback
    /\ nOnDisconnect' = nOnDisconnect + 1
    /\ lastDisconnectCode' = CloseAbnormal
    /\ connectCall' = [connectCall EXCEPT !["io"] = NoCall]
    /\ pc' = [pc EXCEPT !["io"] = "hd_done"]
    /\ UNCHANGED <<connected, reconnectAttempts, autoReconnect,
                     maxReconnectAttempts, secure, urlValid, tls, socket,
                     ioJoinable, ioThreads, terminated, hbRunning,
                     waitingPong, timerJoinable, hbMode, hbModeRead, hbMutex,
                     autoPong, rxPing, wasConnected, discCode, closeFrames,
                     attemptsMade, peerEnded, everOpened, disconnectReturned,
                     normalDisconnect, redundantCall, snapshot, timedOut,
                     pongOutcome, pingLog, tooLarge, closeCode, sentCloseCode,
                     now, hbInterval, hbTimeout, lastPingSent, wakeAt,
                     lastWake, pingAt, notSession>>

\* ioLoop() returns: the I/O thread ends.
IoExit ==
    /\ pc["io"] \in {"exit", "hd_done", "hd_ret"}
    /\ ioThreads' = ioThreads - 1
    /\ connectCall' = [connectCall EXCEPT !["io"] = NoCall]
    /\ pc' = [pc EXCEPT !["io"] = "none"]
    /\ UNCHANGED <<connected, running, reconnectAttempts, autoReconnect,
                     maxReconnectAttempts, secure, urlValid, tls, socket,
                     ioJoinable, terminated, hbRunning, waitingPong,
                     timerJoinable, hbMode, hbModeRead, hbMutex, autoPong,
                     rxPing, wasConnected, discCode, closeFrames,
                     nOnDisconnect, lastDisconnectCode, attemptsMade,
                     peerEnded, everOpened, disconnectReturned,
                     normalDisconnect, lateCallback, redundantCall, snapshot,
                     timedOut, pongOutcome, pingLog, tooLarge, closeCode,
                     sentCloseCode, now, hbInterval, hbTimeout, lastPingSent,
                     wakeAt, lastWake, pingAt, notSession>>

\* timerLoop(): while (running_) { lock mutex_; read interval, timeout and
\* mode; unlock; ... }: the worker ends when running_ is false.
HbLoopTop ==
    /\ pc["hb"] = "top"
    /\ IF hbRunning
       THEN /\ hbMutex = "free"
            /\ hbModeRead' = hbMode
            /\ pc' = [pc EXCEPT !["hb"] = "wait"]
       ELSE /\ pc' = [pc EXCEPT !["hb"] = "none"]
            /\ UNCHANGED hbModeRead
    /\ UNCHANGED <<connected, running, reconnectAttempts, autoReconnect,
                     maxReconnectAttempts, secure, urlValid, tls, socket,
                     ioJoinable, ioThreads, terminated, hbRunning,
                     waitingPong, timerJoinable, hbMode, hbMutex, autoPong,
                     rxPing, wasConnected, discCode, closeFrames,
                     nOnDisconnect, lastDisconnectCode, attemptsMade,
                     peerEnded, everOpened, disconnectReturned,
                     normalDisconnect, lateCallback, redundantCall, snapshot,
                     timedOut, pongOutcome, pingLog, tooLarge, connectCall,
                     closeCode, sentCloseCode, now, hbInterval, hbTimeout,
                     lastPingSent, wakeAt, lastWake, pingAt, notSession>>

\* timerLoop(): cv_.wait_for(interval, !running_) returns, with mutex_
\* acquired again and released; if (!running_) break (the worker ends).
HbWake ==
    /\ pc["hb"] = "wait"
    /\ hbMutex = "free"
    /\ pc' = [pc EXCEPT !["hb"] = IF hbRunning THEN "cycle" ELSE "none"]
    /\ UNCHANGED <<connected, running, reconnectAttempts, autoReconnect,
                     maxReconnectAttempts, secure, urlValid, tls, socket,
                     ioJoinable, ioThreads, terminated, hbRunning,
                     waitingPong, timerJoinable, hbMode, hbModeRead, hbMutex,
                     autoPong, rxPing, wasConnected, discCode, closeFrames,
                     nOnDisconnect, lastDisconnectCode, attemptsMade,
                     peerEnded, everOpened, disconnectReturned,
                     normalDisconnect, lateCallback, redundantCall, snapshot,
                     timedOut, pongOutcome, pingLog, tooLarge, connectCall,
                     closeCode, sentCloseCode, now, hbInterval, hbTimeout,
                     lastPingSent, wakeAt, lastWake, pingAt, notSession>>

\* timerLoop(): waitingPong_ and elapsed > timeout: onTimeout_() (which is
\* triggerError(PingTimeout)); waitingPong_ = false; continue.
HbTimeout ==
    /\ pc["hb"] = "cycle"
    /\ waitingPong
    /\ InvokeCallback
    /\ timedOut' = TRUE
    /\ waitingPong' = FALSE
    /\ pc' = [pc EXCEPT !["hb"] = "top"]
    /\ UNCHANGED <<connected, running, reconnectAttempts, autoReconnect,
                     maxReconnectAttempts, secure, urlValid, tls, socket,
                     ioJoinable, ioThreads, terminated, hbRunning,
                     timerJoinable, hbMode, hbModeRead, hbMutex, autoPong,
                     rxPing, wasConnected, discCode, closeFrames,
                     nOnDisconnect, lastDisconnectCode, attemptsMade,
                     peerEnded, everOpened, disconnectReturned,
                     normalDisconnect, redundantCall, snapshot, pongOutcome,
                     pingLog, tooLarge, connectCall, closeCode, sentCloseCode,
                     now, hbInterval, hbTimeout, lastPingSent, wakeAt,
                     lastWake, pingAt, notSession>>

\* timerLoop(): the deadline test did not fire: with mode Opcode sent =
\* sendPing_() (sendPingFrame: false when !connected, else the result of the
\* write), with mode Disabled sent = false; if (sent) waitingPong_ = true.
HbSendPing ==
    /\ pc["hb"] = "cycle"
    /\ \E written \in BOOLEAN :
        waitingPong' = IF hbModeRead = "Opcode" /\ connected /\ written
                       THEN TRUE ELSE waitingPong
    /\ pc' = [pc EXCEPT !["hb"] = "top"]
    /\ UNCHANGED <<connected, running, reconnectAttempts, autoReconnect,
                     maxReconnectAttempts, secure, urlValid, tls, socket,
                     ioJoinable, ioThreads, terminated, hbRunning,
                     timerJoinable, hbMode, hbModeRead, hbMutex, autoPong,
                     rxPing, wasConnected, discCode, closeFrames,
                     nOnDisconnect, lastDisconnectCode, attemptsMade,
                     peerEnded, everOpened, disconnectReturned,
                     normalDisconnect, lateCallback, redundantCall, snapshot,
                     timedOut, pongOutcome, pingLog, tooLarge, connectCall,
                     closeCode, sentCloseCode, now, hbInterval, hbTimeout,
                     lastPingSent, wakeAt, lastWake, pingAt, notSession>>

\* The user calls setPingMode(mode): HeartbeatManager::setMode locks mutex_
\* and stores config_.mode = mode.
SetModeLock(mode) ==
    /\ pc["user"] = "idle"
    /\ hbMutex = "free"
    /\ hbMutex' = "user"
    /\ hbMode' = mode
    /\ pc' = [pc EXCEPT !["user"] = "sm_set"]
    /\ UNCHANGED <<connected, running, reconnectAttempts, autoReconnect,
                     maxReconnectAttempts, secure, urlValid, tls, socket,
                     ioJoinable, ioThreads, terminated, hbRunning,
                     waitingPong, timerJoinable, hbModeRead, autoPong, rxPing,
                     wasConnected, discCode, closeFrames, nOnDisconnect,
                     lastDisconnectCode, attemptsMade, peerEnded, everOpened,
                     disconnectReturned, normalDisconnect, lateCallback,
                     redundantCall, snapshot, timedOut, pongOutcome, pingLog,
                     tooLarge, connectCall, closeCode, sentCloseCode, now,
                     hbInterval, hbTimeout, lastPingSent, wakeAt, lastWake,
                     pingAt, notSession>>

\* setMode(): the mode is not Disabled: the lock_guard releases mutex_ and
\* the call returns.
SetModeReturn ==
    /\ pc["user"] = "sm_set"
    /\ hbMode # "Disabled"
    /\ hbMutex' = "free"
    /\ pc' = [pc EXCEPT !["user"] = "idle"]
    /\ UNCHANGED <<connected, running, reconnectAttempts, autoReconnect,
                     maxReconnectAttempts, secure, urlValid, tls, socket,
                     ioJoinable, ioThreads, terminated, hbRunning,
                     waitingPong, timerJoinable, hbMode, hbModeRead, autoPong,
                     rxPing, wasConnected, discCode, closeFrames,
                     nOnDisconnect, lastDisconnectCode, attemptsMade,
                     peerEnded, everOpened, disconnectReturned,
                     normalDisconnect, lateCallback, redundantCall, snapshot,
                     timedOut, pongOutcome, pingLog, tooLarge, connectCall,
                     closeCode, sentCloseCode, now, hbInterval, hbTimeout,
                     lastPingSent, wakeAt, lastWake, pingAt, notSession>>

\* setMode(): the mode is Disabled: stop() is called and locks mutex_, a
\* std::mutex the calling thread already owns.  That is undefined: the thread
\* blocks for ever, or lock() throws std::system_error, which leaves setMode
\* through the lock_guard.
SetModeStop ==
    /\ pc["user"] = "sm_set"
    /\ hbMode = "Disabled"
    /\ \/ /\ pc' = [pc EXCEPT !["user"] = "sm_blocked"]
          /\ UNCHANGED hbMutex
       \/ /\ hbMutex' = "free"
          /\ pc' = [pc EXCEPT !["user"] = "idle"]
    /\ UNCHANGED <<connected, running, reconnectAttempts, autoReconnect,
                     maxReconnectAttempts, secure, urlValid, tls, socket,
                     ioJoinable, ioThreads, terminated, hbRunning,
                     waitingPong, timerJoinable, hbMode, hbModeRead, autoPong,
                     rxPing, wasConnected, discCode, closeFrames,
                     nOnDisconnect, lastDisconnectCode, attemptsMade,
                     peerEnded, everOpened, disconnectReturned,
                     normalDisconnect, lateCallback, redundantCall, snapshot,
                     timedOut, pongOutcome, pingLog, tooLarge, connectCall,
                     closeCode, sentCloseCode, now, hbInterval, hbTimeout,
                     lastPingSent, wakeAt, lastWake, pingAt, notSession>>

SessionNext ==
    \/ UserConnect
    \/ \E t \in ConnectThreads : ConnectCheckUrl(t)
    \/ \E t \in ConnectThreads : ConnectInitSocket(t)
    \/ \E t \in ConnectThreads : ConnectSocket(t)
    \/ \E t \in ConnectThreads : ConnectInitTls(t)
    \/ \E t \in ConnectThreads : ConnectHandshake(t)
    \/ \E t \in ConnectThreads : ConnectMark(t)
    \/ \E t \in ConnectThreads : ConnectSpawn(t)
    \/ \E t \in ConnectThreads : ConnectAssign(t)
    \/ \E t \in ConnectThreads : ConnectStartHeartbeat(t)
    \/ \E t \in ConnectThreads : ConnectTriggerConnect(t)
    \/ ConnectReturn
    \/ \E code \in {CloseNormal, CloseGoingAway} : DiscExchange(code)
    \/ DiscClearRunning
    \/ DiscStopHeartbeat
    \/ DiscJoinHeartbeat
    \/ DiscSendClose
    \/ DiscJoinIo
    \/ DiscCleanup
    \/ DiscTriggerDisconnect
    \/ DiscReturn
    \/ UserWait
    \/ IoLoopTop
    \/ IoNoData
    \/ \E len \in FrameLens : IoReadMessage(len)
    \/ IoReadPong
    \/ \E payload \in ClosePayloads : IoReadClose(payload)
    \/ IoReadFail
    \/ IoCheckConnected
    \/ HdStoreConnected
    \/ HdCheckReconnect
    \/ HdBackoffCleanup
    \/ HdGiveUp
    \/ IoExit
    \/ HbLoopTop
    \/ HbWake
    \/ HbTimeout
    \/ HbSendPing

\* The steps of a session whose heartbeat is disabled (PingMode::Disabled):
\* the timer thread is never started.
ConnectNext ==
    \/ UserConnect
    \/ \E t \in ConnectThreads : ConnectCheckUrl(t)
    \/ \E t \in ConnectThreads : ConnectInitSocket(t)
    \/ \E t \in ConnectThreads : ConnectSocket(t)
    \/ \E t \in ConnectThreads : ConnectInitTls(t)
    \/ \E t \in ConnectThreads : ConnectHandshake(t)
    \/ \E t \in ConnectThreads : ConnectMark(t)
    \/ \E t \in ConnectThreads : ConnectSpawn(t)
    \/ \E t \in ConnectThreads : ConnectAssign(t)
    \/ \E t \in ConnectThreads : ConnectStartHeartbeat(t)
    \/ \E t \in ConnectThreads : ConnectTriggerConnect(t)
    \/ ConnectReturn
    \/ \E code \in {CloseNormal, CloseGoingAway} : DiscExchange(code)
    \/ DiscClearRunning
    \/ DiscStopHeartbeat
    \/ DiscSendClose
    \/ DiscJoinIo
    \/ DiscCleanup
    \/ DiscTriggerDisconnect
    \/ DiscReturn
    \/ UserWait
    \/ IoLoopTop
    \/ IoNoData
    \/ \E len \in FrameLens : IoReadMessage(len)
    \/ \E payload \in PingPayloads : IoReadPing(payload)
    \/ HandlePingPong
    \/ HandlePingCallback
    \/ IoPingReturn
    \/ IoReadPong
    \/ \E payload \in ClosePayloads : IoReadClose(payload)
    \/ IoReadFail
    \/ IoCheckConnected
    \/ HdStoreConnected
    \/ HdCheckReconnect
    \/ HdBackoffCleanup
    \/ HdGiveUp
    \/ IoExit

\* An open session: its I/O thread and heartbeat worker, the peer, and a user
\* who changes the ping mode or disconnects.
OpenNext ==
    \/ HbLoopTop
    \/ HbWake
    \/ HbTimeout
    \/ HbSendPing
    \/ IoLoopTop
    \/ IoNoData
    \/ \E len \in FrameLens : IoReadMessage(len)
    \/ \E payload \in PingPayloads : IoReadPing(payload)
    \/ HandlePingPong
    \/ HandlePingCallback
    \/ IoPingReturn
    \/ IoReadPong
    \/ \E payload \in ClosePayloads : IoReadClose(payload)
    \/ IoReadFail
    \/ IoCheckConnected
    \/ HdStoreConnected
    \/ HdCheckReconnect
    \/ HdBackoffCleanup
    \/ ConnectCheckUrl("io")
    \/ ConnectInitSocket("io")
    \/ ConnectSocket("io")
    \/ ConnectInitTls("io")
    \/ ConnectHandshake("io")
    \/ ConnectMark("io")
    \/ ConnectSpawn("io")
    \/ ConnectAssign("io")
    \/ HdGiveUp
    \/ IoExit
    \/ \E mode \in {"Opcode", "Disabled"} : SetModeLock(mode)
    \/ SetModeReturn
    \/ SetModeStop
    \/ \E code \in {CloseNormal, CloseGoingAway} : DiscExchange(code)
    \/ DiscClearRunning
    \/ DiscStopHeartbeat
    \/ DiscJoinHeartbeat
    \/ DiscSendClose
    \/ DiscJoinIo
    \/ DiscCleanup
    \/ DiscTriggerDisconnect
    \/ DiscReturn

(***************************************************************************)
(* HeartbeatManager::timerLoop against the clock.  The session is open,    *)
(* the worker was started at time 0; one tick is the unit of the interval  *)
(* and the pong deadline (the defaults, 30 s and 10 s, are 3 and 1 tick).  *)
(***************************************************************************)
\* The session when connect() has returned true, with config.ping.interval
\* = iv, config.ping.timeout = tmo and config.ping.autoPong = ap: the worker
\* is in its first wait_for.
OpenSessionInit(iv, tmo, ap) ==
    /\ pc = [t \in {"user", "io", "hb"} |-> CASE t = "user" -> "idle" [] t = "io" -> "loop" [] OTHER -> "wait"]
    /\ running = TRUE
    /\ reconnectAttempts = 0
    /\ autoReconnect = TRUE
    /\ maxReconnectAttempts = DefaultMaxReconnectAttempts
    /\ secure = TRUE
    /\ urlValid = TRUE
    /\ tls = "open"
    /\ socket = "open"
    /\ ioJoinable = TRUE
    /\ ioThreads = 1
    /\ terminated = FALSE
    /\ hbRunning = TRUE
    /\ waitingPong = FALSE
    /\ timerJoinable = TRUE
    /\ hbMode = "Opcode"
    /\ hbModeRead = "Opcode"
    /\ hbMutex = "free"
    /\ autoPong = ap
    /\ rxPing = <<>>
    /\ wasConnected = FALSE
    /\ discCode = 0
    /\ closeFrames = 0
    /\ nOnDisconnect = 0
    /\ lastDisconnectCode = 0
    /\ attemptsMade = 0
    /\ peerEnded = FALSE
    /\ everOpened = TRUE
    /\ disconnectReturned = FALSE
    /\ normalDisconnect = FALSE
    /\ lateCallback = FALSE
    /\ redundantCall = FALSE
    /\ snapshot = <<>>
    /\ timedOut = FALSE
    /\ pongOutcome = "none"
    /\ pingLog = <<>>
    /\ tooLarge = FALSE
    /\ connectCall = [t \in ConnectThreads |-> NoCall]
    /\ closeCode = 0
    /\ sentCloseCode = 0
    /\ now = 0
    /\ hbInterval = iv
    /\ hbTimeout = tmo
    /\ lastPingSent = 0
    /\ wakeAt = iv
    /\ lastWake = 0
    /\ pingAt = NoPing

\* The clock advances.
TimerTick ==
    /\ now < MaxTime
    /\ now' = now + 1
    /\ UNCHANGED <<connected, pc, running, reconnectAttempts, autoReconnect,
                     maxReconnectAttempts, secure, urlValid, tls, socket,
                     ioJoinable, ioThreads, terminated, hbRunning,
                     waitingPong, timerJoinable, hbMode, hbModeRead, hbMutex,
                     autoPong, rxPing, wasConnected, discCode, closeFrames,
                     nOnDisconnect, lastDisconnectCode, attemptsMade,
                     peerEnded, everOpened, disconnectReturned,
                     normalDisconnect, lateCallback, redundantCall, snapshot,
                     timedOut, pongOutcome, pingLog, tooLarge, connectCall,
                     closeCode, sentCloseCode, hbInterval, hbTimeout,
                     lastPingSent, wakeAt, lastWake, pingAt, notSession>>

\* timerLoop(): wait_for(interval) has returned; waitingPong_ and
\* now - lastPingSent_ > timeout: onTimeout_(); waitingPong_ = false; continue.
TimerTimeout ==
    /\ pc["hb"] = "wait"
    /\ hbRunning
    /\ now >= wakeAt
    /\ waitingPong
    /\ now - lastPingSent > hbTimeout
    /\ InvokeCallback
    /\ waitingPong' = FALSE
    /\ pingAt' = NoPing
    /\ lastWake' = now
    /\ wakeAt' = now + hbInterval
    /\ UNCHANGED <<connected, pc, running, reconnectAttempts, autoReconnect,
                     maxReconnectAttempts, secure, urlValid, tls, socket,
                     ioJoinable, ioThreads, terminated, hbRunning,
                     timerJoinable, hbMode, hbModeRead, hbMutex, autoPong,
                     rxPing, wasConnected, discCode, closeFrames,
                     nOnDisconnect, lastDisconnectCode, attemptsMade,
                     peerEnded, everOpened, disconnectReturned,
                     normalDisconnect, redundantCall, snapshot, timedOut,
                     pongOutcome, pingLog, tooLarge, connectCall, closeCode,
                     sentCloseCode, now, hbInterval, hbTimeout, lastPingSent,
                     notSession>>

\* timerLoop(): wait_for(interval) has returned and the deadline test did
\* not fire: sent = sendPing_(); if (sent) { lastPingSent_ = now;
\* waitingPong_ = true; }
TimerSendPing ==
    /\ pc["hb"] = "wait"
    /\ hbRunning
    /\ now >= wakeAt
    /\ ~(waitingPong /\ now - lastPingSent > hbTimeout)
    /\ \E written \in BOOLEAN :
        LET sent == connected /\ written IN
        /\ lastPingSent' = IF sent THEN now ELSE lastPingSent
        /\ waitingPong' = IF sent THEN TRUE ELSE waitingPong
        /\ pingAt' = IF sent /\ pingAt = NoPing THEN now ELSE pingAt
    /\ lastWake' = now
    /\ wakeAt' = now + hbInterval
    /\ UNCHANGED <<connected, pc, running, reconnectAttempts, autoReconnect,
                     maxReconnectAttempts, secure, urlValid, tls, socket,
                     ioJoinable, ioThreads, terminated, hbRunning,
                     timerJoinable, hbMode, hbModeRead, hbMutex, autoPong,
                     rxPing, wasConnected, discCode, closeFrames,
                     nOnDisconnect, lastDisconnectCode, attemptsMade,
                     peerEnded, everOpened, disconnectReturned,
                     normalDisconnect, lateCallback, redundantCall, snapshot,
                     timedOut, pongOutcome, pingLog, tooLarge, connectCall,
                     closeCode, sentCloseCode, now, hbInterval, hbTimeout,
                     notSession>>

\* The peer answers: the I/O thread reads a Pong frame, handlePong calls
\* heartbeat->onPongReceived() (waitingPong_ = false) and invokes onPong.
TimerPong ==
    /\ pc["io"] = "loop"
    /\ connected
    /\ InvokeCallback
    /\ waitingPong' = FALSE
    /\ pingAt' = NoPing
    /\ UNCHANGED <<connected, pc, running, reconnectAttempts, autoReconnect,
                     maxReconnectAttempts, secure, urlValid, tls, socket,
                     ioJoinable, ioThreads, terminated, hbRunning,
                     timerJoinable, hbMode, hbModeRead, hbMutex, autoPong,
                     rxPing, wasConnected, discCode, closeFrames,
                     nOnDisconnect, lastDisconnectCode, attemptsMade,
                     peerEnded, everOpened, disconnectReturned,
                     normalDisconnect, redundantCall, snapshot, timedOut,
                     pongOutcome, pingLog, tooLarge, connectCall, closeCode,
                     sentCloseCode, now, hbInterval, hbTimeout, lastPingSent,
                     wakeAt, lastWake, notSession>>

HeartbeatNext ==
    \/ TimerTick
    \/ TimerTimeout
    \/ TimerSendPing
    \/ TimerPong

(***************************************************************************)
(* BufferPool (gg-ws/src/internal/memory_pool.hpp): acquire, the scoped    *)
(* handle Buffer (destructor, move construction, move assignment) and      *)
(* release.  Each pool user is a thread with its own handle variables.     *)
(***************************************************************************)
\* The threads using the pool, and the handle variables each of them has
\* (buf1, buf2 of the tests).
PoolThreads == {1, 2}
HandleVars == {1, 2}

\* No operation in progress: dst is the handle variable the operation
\* assigns, ptr is acquire()'s local, fresh tells that acquire() allocated,
\* tmp is the data_ of the temporary acquire() returned.
NoPoolOp == [dst |-> 0, ptr |-> 0, fresh |-> FALSE, tmp |-> 0]

\* BufferPool(bufferSize, poolSize): poolSize buffers, all available.
PoolInit ==
    /\ buffers_ = PoolSize
    /\ available_ = [i \in 1..PoolSize |-> i]
    /\ mutex_ = NoThread
    /\ hData = [t \in PoolThreads |-> [h \in HandleVars |-> NULL]]
    /\ ppc = [t \in PoolThreads |-> "idle"]
    /\ plocal = [t \in PoolThreads |-> NoPoolOp]

\* acquire() entered without taking mutex_.
PoolAcquireNoLock(t, h) ==
    /\ ppc[t] = "idle"
    /\ plocal' = [plocal EXCEPT ![t].dst = h]
    /\ ppc' = [ppc EXCEPT ![t] = "acq"]
    /\ UNCHANGED <<buffers_, available_, mutex_, hData, notPool>>

\* A thread calls acquire() to assign the result to its handle variable h:
\* std::lock_guard lock(mutex_).
PoolAcquireLock(t, h) ==
    /\ ppc[t] = "idle"
    /\ mutex_ = NoThread
    /\ mutex_' = t
    /\ plocal' = [plocal EXCEPT ![t].dst = h]
    /\ ppc' = [ppc EXCEPT ![t] = "acq"]
    /\ UNCHANGED <<buffers_, available_, hData, notPool>>

\* acquire(): if available_ is empty, buffers_.push_back(a new buffer);
\* otherwise ptr = available_.back().
PoolAcquireTake(t) ==
    /\ ppc[t] = "acq"
    /\ IF available_ = <<>>
       THEN /\ buffers_' = buffers_ + 1
            /\ plocal' = [plocal EXCEPT ![t].ptr = buffers_ + 1, ![t].fresh = TRUE]
       ELSE /\ plocal' = [plocal EXCEPT ![t].ptr = available_[Len(available_)],
                                        ![t].fresh = FALSE]
            /\ UNCHANGED buffers_
    /\ ppc' = [ppc EXCEPT ![t] = "ret"]
    /\ UNCHANGED <<available_, mutex_, hData, notPool>>

\* acquire(): available_.pop_back() unless the buffer is new; return
\* Buffer(this, ptr, bufferSize_); the lock_guard releases mutex_.
PoolAcquireReturn(t) ==
    /\ ppc[t] = "ret"
    /\ available_' = IF plocal[t].fresh \/ available_ = <<>> THEN available_
                     ELSE SubSeq(available_, 1, Len(available_) - 1)
    /\ plocal' = [plocal EXCEPT ![t].tmp = plocal[t].ptr, ![t].ptr = 0]
    /\ mutex_' = IF mutex_ = t THEN NoThread ELSE mutex_
    /\ ppc' = [ppc EXCEPT ![t] = "got"]
    /\ UNCHANGED <<buffers_, hData, notPool>>

\* A release that does not give the buffer back.
PoolReleaseNoPush(ptr) ==
    /\ ptr # NULL => mutex_ = NoThread
    /\ available_' = available_

\* Buffer::release() and BufferPool::release(ptr): if (pool_ && data_)
\* { lock_guard lock(mutex_); available_.push_back(ptr); }.
PoolRelease(ptr) ==
    /\ ptr # NULL => mutex_ = NoThread
    /\ available_' = IF ptr # NULL THEN Append(available_, ptr) ELSE available_

\* The returned temporary is move-assigned to the handle variable
\* (Buffer::operator=(Buffer&&)): release() of what the variable held, then
\* the members are taken over and the temporary is left empty.
PoolAssign(t) ==
    /\ ppc[t] = "got"
    /\ PoolRelease(hData[t][plocal[t].dst])
    /\ hData' = [hData EXCEPT ![t][plocal[t].dst] = plocal[t].tmp]
    /\ plocal' = [plocal EXCEPT ![t] = NoPoolOp]
    /\ ppc' = [ppc EXCEPT ![t] = "idle"]
    /\ UNCHANGED <<buffers_, mutex_, notPool>>

\* A handle variable goes out of scope: ~Buffer() calls release().
PoolDrop(t, h) ==
    /\ ppc[t] = "idle"
    /\ hData[t][h] # NULL
    /\ PoolRelease(hData[t][h])
    /\ hData' = [hData EXCEPT ![t][h] = NULL]
    /\ UNCHANGED <<buffers_, mutex_, ppc, plocal, notPool>>

\* d = std::move(s) (Buffer::operator=(Buffer&&)): nothing if this == &other;
\* otherwise release() of what d held, d takes the members of s, s is left
\* empty.
PoolMove(t, d, s) ==
    /\ ppc[t] = "idle"
    /\ hData[t][s] # NULL
    /\ IF d = s
       THEN UNCHANGED <<available_, hData>>
       ELSE /\ PoolRelease(hData[t][d])
            /\ hData' = [hData EXCEPT ![t][d] = hData[t][s], ![t][s] = NULL]
    /\ UNCHANGED <<buffers_, mutex_, ppc, plocal, notPool>>

PoolNext ==
    \/ \E t \in PoolThreads : \E h \in HandleVars : PoolAcquireLock(t, h)
    \/ \E t \in PoolThreads : PoolAcquireTake(t)
    \/ \E t \in PoolThreads : PoolAcquireReturn(t)
    \/ \E t \in PoolThreads : PoolAssign(t)
    \/ \E t \in PoolThreads : \E h \in HandleVars : PoolDrop(t, h)
    \/ \E t \in PoolThreads : \E d \in HandleVars : \E s \in HandleVars : PoolMove(t, d, s)

\* data_ of every live handle: the handle variables and the temporaries
\* acquire() returned that are not assigned yet.
LiveHandles ==
    {k \in PoolThreads \X HandleVars : hData[k[1]][k[2]] # NULL}
        \cup {k \in PoolThreads \X {0} : plocal[k[1]].tmp # NULL}

\* The buffer a live handle refers to.
HandleBuffer(k) == IF k[2] = 0 THEN plocal[k[1]].tmp ELSE hData[k[1]][k[2]]

(***************************************************************************)
(* The callback slots: the setters WebSocket::onMessage ... onPong and the *)
(* dispatches handleMessage / handlePing / handlePong / triggerError /     *)
(* triggerConnect / triggerDisconnect, all under callbackMutex.            *)
(***************************************************************************)
\* Three of the seven slots (they share callbackMutex and the same code),
\* and the callables a user installs; NoCallback is an empty std::function.
CallbackSlots == {"onMessage", "onPing", "onError"}
CallbackValues == {1, 2}
NoCallback == 0

\* The thread that dispatches (the I/O thread) and a user thread.
CallbackThreads == {"io", "user"}

\* No dispatch in progress / no setter call in progress.
NoDispatch == [slot |-> "none", value |-> NoCallback]

CallbacksInit ==
    /\ callbackMutex = "free"
    /\ cbSlots = [s \in CallbackSlots |-> NoCallback]
    /\ cbpc = [t \in CallbackThreads |-> "idle"]
    /\ cbRunning = NoDispatch
    /\ cbArg = [t \in CallbackThreads |-> NoDispatch]
    /\ cbDestroyed = FALSE

\* A user thread calls a setter: std::lock_guard lock(impl_->callbackMutex).
SetterLock(s, v) ==
    /\ cbpc["user"] = "idle"
    /\ callbackMutex = "free"
    /\ callbackMutex' = "user"
    /\ cbArg' = [cbArg EXCEPT !["user"] = [slot |-> s, value |-> v]]
    /\ cbpc' = [cbpc EXCEPT !["user"] = "store"]
    /\ UNCHANGED <<cbSlots, cbRunning, cbDestroyed, notCallbacks>>

\* The setter: impl_->onXCb = std::move(callback); the lock_guard releases
\* callbackMutex and the setter returns.
SetterStore ==
    /\ cbpc["user"] = "store"
    /\ cbSlots' = [cbSlots EXCEPT ![cbArg["user"].slot] = cbArg["user"].value]
    /\ callbackMutex' = "free"
    /\ cbArg' = [cbArg EXCEPT !["user"] = NoDispatch]
    /\ cbpc' = [cbpc EXCEPT !["user"] = "idle"]
    /\ UNCHANGED <<cbRunning, cbDestroyed, notCallbacks>>

\* A dispatch: std::lock_guard lock(callbackMutex); if (onXCb) onXCb(...).
\* With an empty slot the lock is released at once; otherwise the callable
\* is invoked in place, with callbackMutex held.
DispatchLock(s) ==
    /\ cbpc["io"] = "idle"
    /\ callbackMutex = "free"
    /\ IF cbSlots[s] = NoCallback
       THEN UNCHANGED <<callbackMutex, cbpc, cbRunning>>
       ELSE /\ callbackMutex' = "io"
            /\ cbRunning' = [slot |-> s, value |-> cbSlots[s]]
            /\ cbpc' = [cbpc EXCEPT !["io"] = "in_cb"]
    /\ UNCHANGED <<cbSlots, cbArg, cbDestroyed, notCallbacks>>

\* The user's callback returns; the dispatch ends and its lock_guard
\* releases callbackMutex.
CallbackReturn ==
    /\ cbpc["io"] = "in_cb"
    /\ callbackMutex' = "free"
    /\ cbRunning' = NoDispatch
    /\ cbDestroyed' = FALSE
    /\ cbpc' = [cbpc EXCEPT !["io"] = "idle"]
    /\ UNCHANGED <<cbSlots, cbArg, notCallbacks>>

\* The user's callback calls a setter.
CallbackCallsSetter(s, v) ==
    /\ cbpc["io"] = "in_cb"
    /\ cbArg["io"] = NoDispatch
    /\ cbArg' = [cbArg EXCEPT !["io"] = [slot |-> s, value |-> v]]
    /\ cbpc' = [cbpc EXCEPT !["io"] = "cb_lock"]
    /\ UNCHANGED <<callbackMutex, cbSlots, cbRunning, cbDestroyed, notCallbacks>>

\* That setter's std::lock_guard locks callbackMutex, which this thread
\* holds for the dispatch.  Locking a std::mutex again is undefined: the
\* thread blocks on itself for ever, or lock() throws std::system_error,
\* which leaves the callback and ioLoop and ends in std::terminate, or the
\* lock is taken once more.
CallbackSetterLock ==
    /\ cbpc["io"] = "cb_lock"
    /\ callbackMutex = "io"
    /\ \/ cbpc' = [cbpc EXCEPT !["io"] = "cb_blocked"]
       \/ cbpc' = [t \in CallbackThreads |-> "terminated"]
       \/ cbpc' = [cbpc EXCEPT !["io"] = "cb_store"]
    /\ UNCHANGED <<callbackMutex, cbSlots, cbRunning, cbArg, cbDestroyed, notCallbacks>>

\* The setter called from the callback stores: the std::function of the
\* slot is replaced, which destroys the callable it held; when that is the
\* callable being invoked, it is destroyed while it runs.  The setter's
\* lock_guard unlocks callbackMutex and the setter returns into the callback.
CallbackSetterStore ==
    /\ cbpc["io"] = "cb_store"
    /\ cbSlots' = [cbSlots EXCEPT ![cbArg["io"].slot] = cbArg["io"].value]
    /\ cbDestroyed' = (cbDestroyed \/ cbArg["io"].slot = cbRunning.slot)
    /\ callbackMutex' = "free"
    /\ cbpc' = [cbpc EXCEPT !["io"] = "in_cb_unlocked"]
    /\ UNCHANGED <<cbRunning, cbArg, notCallbacks>>

\* The callback returns after such a setter call: the dispatch's lock_guard
\* unlocks a mutex the thread no longer owns.
CallbackReturnUnlocked ==
    /\ cbpc["io"] = "in_cb_unlocked"
    /\ callbackMutex' = IF callbackMutex = "user" THEN "broken" ELSE "free"
    /\ cbRunning' = NoDispatch
    /\ cbDestroyed' = FALSE
    /\ cbArg' = [cbArg EXCEPT !["io"] = NoDispatch]
    /\ cbpc' = [cbpc EXCEPT !["io"] = "idle"]
    /\ UNCHANGED <<cbSlots, notCallbacks>>

CallbacksNext ==
    \/ \E s \in CallbackSlots : \E v \in CallbackValues \cup {NoCallback} : SetterLock(s, v)
    \/ SetterStore
    \/ \E s \in CallbackSlots : DispatchLock(s)
    \/ CallbackReturn
    \/ \E s \in CallbackSlots : \E v \in CallbackValues \cup {NoCallback} : CallbackCallsSetter(s, v)
    \/ CallbackSetterLock
    \/ CallbackSetterStore
    \/ CallbackReturnUnlocked

(***************************************************************************)
(* sendAsync and the drain of the I/O loop:                                *)
(*   while (auto msg = sendQueue.pop()) send(the message);                 *)
(* The producers are the threads calling sendAsync (sendQueue.push); the   *)
(* I/O thread is the queue's consumer and writes through send().           *)
(***************************************************************************)
\* The I/O thread as a thread of the write path: it calls send(), a Text
\* frame.
Drainer == 1

\* ioLoop(): msg = sendQueue.pop(), once the previous message's send() has
\* returned.
DrainPop ==
    /\ wpc[Drainer] = "idle"
    /\ calls[Drainer] = Len(popped)
    /\ Pop

\* ioLoop(): send() of the message just popped: if (!connected) return
\* false; return sendFrame(Opcode::Text, message).
DrainSend ==
    /\ wpc[Drainer] = "idle"
    /\ calls[Drainer] < Len(popped)
    /\ IF connected
       THEN wpc' = [wpc EXCEPT ![Drainer] = "lock"] /\ UNCHANGED calls
       ELSE calls' = [calls EXCEPT ![Drainer] = @ + 1] /\ UNCHANGED wpc
    /\ UNCHANGED <<connected, sendMutex, wire, frames, transportBroken, wframe, totalSent, notWire>>

AsyncNext ==
    \/ \E p \in Producers : PushExchange(p)
    \/ \E p \in Producers : PushLink(p)
    \/ DrainPop
    \/ DrainSend
    \/ SendFrameLock(Drainer)
    \/ RawSendWrite(Drainer)
    \/ RawSendFail(Drainer)

\* The drain while another thread calls disconnect(): the exchange clears
\* connected and sendCloseFrame writes the Close frame through sendFrame.
AsyncCloseNext ==
    \/ AsyncNext
    \/ DisconnectExchange
    \/ SendFrameLock(Closer)
    \/ RawSendWrite(Closer)
    \/ RawSendFail(Closer)

\* The frame built for the k-th popped message is on the wire, whole.
WrittenWhole(k) ==
    \E i \in 1..Len(wire) : wire[i][1] = k /\ WholeFrameAt(i)

(***************************************************************************)
(* The frame codec: WebSocket::Impl::sendFrame builds the bytes of an      *)
(* outbound frame, WebSocket::Impl::readFrame parses the bytes of an       *)
(* inbound one.  Bytes are 0..255.                                         *)
(***************************************************************************)
OpContinuation == 0
DefaultMaxMessageSize == 16777216
ErrMessageTooLarge == 1008
ErrInvalidFrame == 1009

\* (n >> (8 * k)) & 0xFF.
RECURSIVE ByteOf(_, _)
ByteOf(n, k) == IF k = 0 THEN n % 256 ELSE ByteOf(n \div 256, k - 1)

\* sendFrame(): the second header byte and the extended length, mask bit set:
\* the 7-bit form below 126, marker 126 and 16 bits big-endian up to 65535,
\* marker 127 and 64 bits big-endian above.
EncodeLength(n) ==
    IF n < 126 THEN <<128 + n>>
    ELSE IF n <= 65535 THEN <<128 + 126, ByteOf(n, 1), ByteOf(n, 0)>>
    ELSE <<128 + 127>> \o [i \in 1..8 |-> ByteOf(n, 8 - i)]

\* sendFrame(): frame.push_back(payload[i] ^ maskKey[i % 4]).
MaskPayload(payload, key) ==
    [i \in 1..Len(payload) |-> Xor(payload[i], key[((i - 1) % 4) + 1])]

\* sendFrame(opcode, payload) with the mask key it drew: FIN + opcode, the
\* length, the four key bytes, the masked payload.
EncodeFrame(opcode, payload, key) ==
    <<128 + opcode>> \o EncodeLength(Len(payload)) \o key \o MaskPayload(payload, key)

\* An unmask that starts one byte late in the key.
UnmaskPayloadShifted(data, key) ==
    [i \in 1..Len(data) |-> Xor(data[i], key[(i % 4) + 1])]

\* readFrame(): buffer[i] ^= maskKey[i % 4].
UnmaskPayload(data, key) ==
    [i \in 1..Len(data) |-> Xor(data[i], key[((i - 1) % 4) + 1])]

\* readFrame(): the big-endian value of the extended length bytes,
\* payloadLen = (payloadLen << 8) | lenBytes[i].
RECURSIVE BigEndian(_)
BigEndian(bs) ==
    IF bs = <<>> THEN 0
    ELSE BigEndian(SubSeq(bs, 1, Len(bs) - 1)) * 256 + bs[Len(bs)]

\* What readFrame has when it fails before the dispatch: a read returned
\* fewer bytes than asked for, or the declared length is above
\* config.maxMessageSize (onError(MessageTooLarge)).
ReadFailed == [status |-> "failed"]
TooLarge == [status |-> "tooLarge"]

\* readFrame() on the bytes the transport delivers, up to the dispatch: the
\* two header bytes give fin, opcode, masked and the 7-bit length; 126 and
\* 127 announce 2 and 8 more length bytes; the length is checked against
\* maxMessageSize; then the mask key if masked, then the payload, unmasked.
ParseFrame(bytes, maxMessageSize) ==
    IF Len(bytes) < 2 THEN ReadFailed
    ELSE
    LET fin == bytes[1] >= 128
        opcode == bytes[1] % 16
        masked == bytes[2] >= 128
        len7 == bytes[2] % 128
        ext == IF len7 = 126 THEN 2 ELSE IF len7 = 127 THEN 8 ELSE 0
    IN  IF Len(bytes) < 2 + ext THEN ReadFailed
        ELSE
        LET payloadLen == IF ext = 0 THEN len7 ELSE BigEndian(SubSeq(bytes, 3, 2 + ext))
            keyLen == IF masked THEN 4 ELSE 0
            off == 2 + ext + keyLen
        IN  IF payloadLen > maxMessageSize THEN TooLarge
            ELSE IF Len(bytes) < off + payloadLen THEN ReadFailed
            ELSE
            LET data == SubSeq(bytes, off + 1, off + payloadLen)
                key == SubSeq(bytes, 2 + ext + 1, 2 + ext + keyLen)
            IN  [status |-> "ok", fin |-> fin, opcode |-> opcode,
                 payload |-> IF masked THEN UnmaskPayload(data, key) ELSE data,
                 used |-> off + payloadLen]

\* A payload of n bytes.
PayloadOf(n, seed) == [i \in 1..n |-> (i * seed + seed) % 256]

\* The payload sizes around the boundaries of the three length forms and of
\* the configured maximum, and the calls of sendFrame made with them.
SmallSizes == {0, 1, MaxMessageSizeCfg + 1}
MiddleSizes == {125, 126, 127, 300}
LargeSizes == {65535, 65536}
CodecInputs ==
    ((SmallSizes \cup MiddleSizes) \X {1, 77} \X MaskKeys \X {OpText, OpBinary}
        \X {DefaultMaxMessageSize})
    \cup (LargeSizes \X {77} \X {<<255, 1, 2, 3>>} \X {OpText, OpBinary}
        \X {DefaultMaxMessageSize})
    \cup (SmallSizes \X {1, 77} \X MaskKeys \X {OpText, OpBinary}
        \X {MaxMessageSizeCfg})

NoParse == [status |-> "none"]

\* A call sendFrame(opcode, payload) that draws key, on a session whose
\* config.maxMessageSize is max.
CodecStart(opcode, payload, key, max) ==
    /\ cdMax = max
    /\ cdIn = [opcode |-> opcode, payload |-> payload, key |-> key]
    /\ cdBytes = <<>>
    /\ cdOut = NoParse

CodecInit == CodecStart(OpText, <<>>, <<0, 0, 0, 0>>, DefaultMaxMessageSize)

\* sendFrame builds the frame.
CodecEncode ==
    /\ cdBytes = <<>>
    /\ cdBytes' = EncodeFrame(cdIn.opcode, cdIn.payload, cdIn.key)
    /\ UNCHANGED <<cdMax, cdIn, cdOut, notCodec>>

\* readFrame is given those bytes.
CodecDecode ==
    /\ cdBytes # <<>>
    /\ cdOut = NoParse
    /\ cdOut' = ParseFrame(cdBytes, cdMax)
    /\ UNCHANGED <<cdMax, cdIn, cdBytes, notCodec>>

CodecNext == CodecEncode \/ CodecDecode

(***************************************************************************)
(* The inbound side of the I/O loop: readFrame on the frames a peer sends, *)
(* its dispatch by opcode, and what ioLoop does with its result.           *)
(***************************************************************************)
\* A frame as a server writes it: FIN and opcode, the length without mask
\* bit in the form readFrame parses, the payload.
ServerFrame(fin, opcode, payload) ==
    LET n == Len(payload) IN
    <<(IF fin THEN 128 ELSE 0) + opcode>>
        \o (IF n < 126 THEN <<n>> ELSE <<126, ByteOf(n, 1), ByteOf(n, 0)>>)
        \o payload

\* The frames the peer may send: whole and fragmented data frames,
\* continuations, control frames that are well formed, too long (126 bytes)
\* or not final, and a frame with the reserved opcode 3.
LongPayload == PayloadOf(126, 1)
InboundFrames ==
    { [fin |-> TRUE, opcode |-> OpText, payload |-> <<65>>],
      [fin |-> FALSE, opcode |-> OpText, payload |-> <<65>>],
      [fin |-> FALSE, opcode |-> OpBinary, payload |-> <<65>>],
      [fin |-> FALSE, opcode |-> OpContinuation, payload |-> <<66>>],
      [fin |-> TRUE, opcode |-> OpContinuation, payload |-> <<67>>],
      [fin |-> TRUE, opcode |-> OpPing, payload |-> <<7>>],
      [fin |-> FALSE, opcode |-> OpPing, payload |-> <<7>>],
      [fin |-> TRUE, opcode |-> OpPing, payload |-> LongPayload],
      [fin |-> TRUE, opcode |-> OpPong, payload |-> <<>>],
      [fin |-> FALSE, opcode |-> OpPong, payload |-> <<>>],
      [fin |-> TRUE, opcode |-> OpClose, payload |-> <<3, 232>>],
      [fin |-> TRUE, opcode |-> 3, payload |-> <<65>>] }

ReaderInit ==
    /\ rxFed = <<>>
    /\ rxLog = <<>>
    /\ rxErrors = <<>>
    /\ rxLoop = "running"

\* One turn of ioLoop with data available: readFrame(frameBuffer) parses
\* the frame and dispatches it: Text and Binary to handleMessage
\* (onRawMessage), Close to handleClose and return false, Ping to handlePing
\* (onPing), Pong to handlePong (onPong), any other opcode to nothing; it
\* returns true except after Close, a failed read or a too large frame, and
\* on false ioLoop leaves its loop.
ReaderFrame(f) ==
    /\ rxLoop = "running"
    /\ Len(rxFed) < MaxFrames
    /\ rxFed' = Append(rxFed, f)
    /\ LET r == ParseFrame(ServerFrame(f.fin, f.opcode, f.payload), DefaultMaxMessageSize)
           k == Len(rxFed) + 1
       IN  IF r.status # "ok"
           THEN /\ rxLoop' = "exited"
                /\ rxErrors' = IF r.status = "tooLarge"
                               THEN Append(rxErrors, [code |-> ErrMessageTooLarge, frame |-> k])
                               ELSE rxErrors
                /\ UNCHANGED rxLog
           ELSE /\ UNCHANGED rxErrors
                /\ rxLog' =
                     IF r.opcode \in {OpText, OpBinary}
                     THEN Append(rxLog, [cb |-> "onRawMessage", payload |-> r.payload, frame |-> k])
                     ELSE IF r.opcode = OpPing
                     THEN Append(rxLog, [cb |-> "onPing", payload |-> r.payload, frame |-> k])
                     ELSE IF r.opcode = OpPong
                     THEN Append(rxLog, [cb |-> "onPong", payload |-> r.payload, frame |-> k])
                     ELSE rxLog
                /\ rxLoop' = IF r.opcode = OpClose THEN "exited" ELSE "running"
    /\ UNCHANGED notReader

\* The transport fails or ends: rawRecv returns <= 0, readFrame returns
\* false and ioLoop leaves its loop.
ReaderEof ==
    /\ rxLoop = "running"
    /\ rxLoop' = "exited"
    /\ UNCHANGED <<rxFed, rxLog, rxErrors, notReader>>

ReaderNext ==
    \/ \E f \in InboundFrames : ReaderFrame(f)
    \/ ReaderEof

(***************************************************************************)
(* CPU affinity: the public setter pinThread, and the pin the I/O thread   *)
(* applies to itself when ioLoop starts.                                   *)
(***************************************************************************)
\* internal::getCoreCount(): hardware_concurrency(), or 1 when that is 0.
getCoreCount == CoreCount

\* internal::isValidCore(core).
isValidCore(core) == core >= 0 /\ core < getCoreCount

\* The arguments pinThread is called with: below, inside and above the
\* range of cores.
PinArgs == (-1 .. CoreCount) \cup {CoreCount + 100}

NoPinCall == [called |-> FALSE, core |-> -1, ret |-> FALSE]
NotPinned == -1
NoIoThread == [pc |-> "none", attempt |-> NotPinned, turns |-> 0]

AffinityInit ==
    /\ pinnedCore = NotPinned
    /\ pinCall = NoPinCall
    /\ ioRun = NoIoThread
    /\ ioAffinity = NotPinned

\* WebSocket::pinThread(core) without the validity check.
PinThreadNoCheck(core) ==
    /\ pinCall = NoPinCall
    /\ pinnedCore' = core
    /\ pinCall' = [called |-> TRUE, core |-> core, ret |-> TRUE]
    /\ UNCHANGED <<ioRun, ioAffinity, notAffinity>>

\* WebSocket::pinThread(core): false for an invalid core, else the core is
\* stored in Impl::pinnedCore and the result is true.
PinThread(core) ==
    /\ pinCall = NoPinCall
    /\ IF ~isValidCore(core)
       THEN /\ pinCall' = [called |-> TRUE, core |-> core, ret |-> FALSE]
            /\ UNCHANGED pinnedCore
       ELSE /\ pinnedCore' = core
            /\ pinCall' = [called |-> TRUE, core |-> core, ret |-> TRUE]
    /\ UNCHANGED <<ioRun, ioAffinity, notAffinity>>

\* The caller has the result of pinThread.
PinThreadReturn ==
    /\ pinCall # NoPinCall
    /\ pinCall' = NoPinCall
    /\ UNCHANGED <<pinnedCore, ioRun, ioAffinity, notAffinity>>

\* connect() starts the I/O thread; a new thread has the affinity of the
\* process.
IoThreadSpawn ==
    /\ ioRun.pc = "none"
    /\ ioRun' = [pc |-> "start", attempt |-> NotPinned, turns |-> 0]
    /\ ioAffinity' = NotPinned
    /\ UNCHANGED <<pinnedCore, pinCall, notAffinity>>

\* The first statement of ioLoop: with pinnedCore >= 0 the thread calls
\* pinCurrentThread(pinnedCore), whose result is ignored; the system call
\* sets the affinity or fails (a core outside the process's cpuset).
IoPin ==
    /\ ioRun.pc = "start"
    /\ IF pinnedCore >= 0
       THEN /\ ioRun' = [ioRun EXCEPT !.pc = "loop", !.attempt = pinnedCore]
            /\ ioAffinity' \in {pinnedCore, ioAffinity}
       ELSE /\ ioRun' = [ioRun EXCEPT !.pc = "loop"]
            /\ UNCHANGED ioAffinity
    /\ UNCHANGED <<pinnedCore, pinCall, notAffinity>>

\* One turn of the loop of ioLoop.
IoTurn ==
    /\ ioRun.pc = "loop"
    /\ ioRun.turns < MaxTicks
    /\ ioRun' = [ioRun EXCEPT !.turns = @ + 1]
    /\ UNCHANGED <<pinnedCore, pinCall, ioAffinity, notAffinity>>

\* ioLoop returns: running is false, or readFrame failed.
IoLoopExit ==
    /\ ioRun.pc = "loop"
    /\ ioRun' = [ioRun EXCEPT !.pc = "done"]
    /\ UNCHANGED <<pinnedCore, pinCall, ioAffinity, notAffinity>>

\* disconnect() joins the thread.
IoThreadJoin ==
    /\ ioRun.pc = "done"
    /\ ioRun' = NoIoThread
    /\ ioAffinity' = NotPinned
    /\ UNCHANGED <<pinnedCore, pinCall, notAffinity>>

AffinityNext ==
    \/ \E core \in PinArgs : PinThread(core)
    \/ PinThreadReturn
    \/ IoThreadSpawn
    \/ IoPin
    \/ IoTurn
    \/ IoLoopExit
    \/ IoThreadJoin

(***************************************************************************)
(* The URL parser: parseUrl on a text, a sequence of characters, and       *)
(* ParsedUrl::valid on its result.                                         *)
(***************************************************************************)
WsPrefix == <<"w", "s", ":", "/", "/">>
WssPrefix == <<"w", "s", "s", ":", "/", "/">>
DigitChars == <<"0", "1", "2", "3", "4", "5", "6", "7", "8", "9">>

\* url.substr(pos, n) with pos counted from 0: clipped at the end.
Substr(s, pos, n) ==
    SubSeq(s, pos + 1, IF pos + n > Len(s) THEN Len(s) ELSE pos + n)

\* find and rfind of a character: the position counted from 0, or -1 for
\* npos.
Find(s, c) ==
    IF \E i \in 1..Len(s) : s[i] = c
    THEN (CHOOSE i \in 1..Len(s) : s[i] = c /\ \A j \in 1..(i - 1) : s[j] # c) - 1
    ELSE -1

RFind(s, c) ==
    IF \E i \in 1..Len(s) : s[i] = c
    THEN (CHOOSE i \in 1..Len(s) : s[i] = c /\ \A j \in (i + 1)..Len(s) : s[j] # c) - 1
    ELSE -1

IsDigit(c) == \E d \in 1..10 : DigitChars[d] = c
DigitValue(c) == (CHOOSE d \in 1..10 : DigitChars[d] = c) - 1

RECURSIVE DecimalValue(_)
DecimalValue(s) ==
    IF s = <<>> THEN 0
    ELSE 10 * DecimalValue(SubSeq(s, 1, Len(s) - 1)) + DigitValue(s[Len(s)])

\* std::stoi: an optional sign, then the longest run of digits; the rest of
\* the text is ignored; no digit throws invalid_argument, a value outside
\* int throws out_of_range (here: more than MaxDigits digits).
Stoi(s) ==
    LET signed == s # <<>> /\ s[1] \in {"-", "+"}
        body == IF signed THEN Tail(s) ELSE s
        nd == IF \E i \in 1..Len(body) : ~IsDigit(body[i])
              THEN (CHOOSE i \in 1..Len(body) :
                        ~IsDigit(body[i]) /\ \A j \in 1..(i - 1) : IsDigit(body[j])) - 1
              ELSE Len(body)
        v == DecimalValue(SubSeq(body, 1, nd))
    IN  IF nd = 0 \/ nd > MaxDigits
        THEN [threw |-> TRUE, value |-> 0]
        ELSE [threw |-> FALSE, value |-> IF signed /\ s[1] = "-" THEN 0 - v ELSE v]

\* static_cast<uint16_t> of an int.
ToUint16(v) == v % 65536

NoParsedUrl == [threw |-> FALSE, parsed |-> FALSE, secure |-> FALSE,
                host |-> <<>>, port |-> 0, path |-> <<>>]

parseUrl(url) ==
    LET isWss == Substr(url, 0, 6) = WssPrefix
        isWs == Substr(url, 0, 5) = WsPrefix
        rest == IF isWss THEN SubSeq(url, 7, Len(url)) ELSE SubSeq(url, 6, Len(url))
        pathPos == Find(rest, "/")
        hostPort == IF pathPos # -1 THEN Substr(rest, 0, pathPos) ELSE rest
        path == IF pathPos # -1 THEN SubSeq(rest, pathPos + 1, Len(rest)) ELSE <<"/">>
        colonPos == RFind(hostPort, ":")
        portStr == SubSeq(hostPort, colonPos + 2, Len(hostPort))
        n == Stoi(portStr)
    IN  IF ~isWss /\ ~isWs
        THEN [NoParsedUrl EXCEPT !.parsed = TRUE]
        ELSE IF colonPos = -1
        THEN [threw |-> FALSE, parsed |-> TRUE, secure |-> isWss, host |-> hostPort,
              port |-> IF isWss THEN 443 ELSE 80, path |-> path]
        ELSE IF n.threw
        THEN [NoParsedUrl EXCEPT !.threw = TRUE]
        ELSE [threw |-> FALSE, parsed |-> TRUE, secure |-> isWss,
              host |-> Substr(hostPort, 0, colonPos),
              port |-> ToUint16(n.value), path |-> path]

\* ParsedUrl::valid().
valid(p) == p.host # <<>> /\ p.port > 0

\* The URLs parsed: a scheme, a host, possibly a port text with the number
\* it writes (absent: no colon), possibly a path.
UrlSchemes == {WsPrefix, WssPrefix, <<"h", "t", "t", "p", ":", "/", "/">>}
UrlHosts == {<<>>, <<"h">>, <<"a", ".", "b">>}
NoPort == [written |-> FALSE, text |-> <<>>, number |-> 0, numeric |-> FALSE]
UrlPorts ==
    { NoPort,
      [written |-> TRUE, text |-> <<"8", "0", "8", "0">>, number |-> 8080, numeric |-> TRUE],
      [written |-> TRUE, text |-> <<"1">>, number |-> 1, numeric |-> TRUE],
      [written |-> TRUE, text |-> <<"0">>, number |-> 0, numeric |-> TRUE],
      [written |-> TRUE, text |-> <<"6", "5", "5", "3", "5">>, number |-> 65535, numeric |-> TRUE],
      [written |-> TRUE, text |-> <<"6", "5", "5", "3", "6">>, number |-> 65536, numeric |-> TRUE],
      [written |-> TRUE, text |-> <<"6", "5", "6", "1", "6">>, number |-> 65616, numeric |-> TRUE],
      [written |-> TRUE, text |-> <<"-", "1">>, number |-> -1, numeric |-> TRUE],
      [written |-> TRUE, text |-> <<>>, number |-> 0, numeric |-> FALSE],
      [written |-> TRUE, text |-> <<"x">>, number |-> 0, numeric |-> FALSE] }
UrlPaths == {<<>>, <<"/", "p">>}

UrlText(u) ==
    u.scheme \o u.host \o (IF u.port.written THEN <<":">> \o u.port.text ELSE <<>>) \o u.path

UrlStart(scheme, host, port, path) ==
    /\ puUrl = [scheme |-> scheme, host |-> host, port |-> port, path |-> path]
    /\ puResult = NoParsedUrl

UrlInit == UrlStart(WssPrefix, <<"h">>, NoPort, <<>>)

\* connect() parses config.url.
ParseUrlCall ==
    /\ ~puResult.parsed
    /\ ~puResult.threw
    /\ puResult' = parseUrl(UrlText(puUrl))
    /\ UNCHANGED <<puUrl, notUrl>>

UrlNext == ParseUrlCall

(***************************************************************************)
(* The event bus: EventBus::subscribe, emit, poll and unsubscribe, the     *)
(* per-thread ThreadQueue, and the Subscription handles.                   *)
(***************************************************************************)
BusThreads == {1, 2}
SubIds == 1..MaxSubs
\* The handles of a subscription: the one subscribe returned, and one
\* move-constructed from it.
Returned == 1
MovedTo == 2
SubHandles == SubIds \X {Returned, MovedTo}
\* A default-constructed Subscription: no id, no unsubscribe function, not
\* active.
NoSubscription == [id |-> 0, fn |-> "empty", active |-> FALSE]

BusInit ==
    /\ m_nextId = 1
    /\ m_listeners = <<>>
    /\ m_queues = {}
    /\ m_pending = [t \in BusThreads |-> <<>>]
    /\ toProcess = [t \in BusThreads |-> <<>>]
    /\ pollpc = [t \in BusThreads |-> "idle"]
    /\ subs = [k \in SubHandles |-> NoSubscription]
    /\ subThread = [i \in SubIds |-> 0]
    /\ unsubscribed = {}
    /\ emitLog = <<>>
    /\ runLog = [i \in SubIds |-> <<>>]

\* The closures the wrappers of the listeners push for event e, one per
\* listener in the order of the vector, each to the queue of the thread
\* that subscribed.
RECURSIVE PushAll(_, _, _)
PushAll(pending, listeners, e) ==
    IF listeners = <<>> THEN pending
    ELSE PushAll([pending EXCEPT ![Head(listeners).threadId] =
                    Append(@, [id |-> Head(listeners).id, event |-> e])],
                Tail(listeners), e)

\* The callbacks of the listeners run in place for event e by thread t.
RECURSIVE RunAll(_, _, _, _)
RunAll(log, listeners, e, t) ==
    IF listeners = <<>> THEN log
    ELSE RunAll([log EXCEPT ![Head(listeners).id] =
                    Append(@, [event |-> e, thread |-> t, cancelled |-> FALSE])],
                Tail(listeners), e, t)

\* EventBus::subscribe<T>(callback) on thread t: the queue of t is looked
\* up or made, the id is drawn from m_nextId, the listener is appended
\* under m_mutex, the Subscription returned is active.
BusSubscribe(t) ==
    /\ m_nextId <= MaxSubs
    /\ m_queues' = m_queues \cup {t}
    /\ m_nextId' = m_nextId + 1
    /\ m_listeners' = Append(m_listeners, [id |-> m_nextId, threadId |-> t])
    /\ subs' = [subs EXCEPT ![<<m_nextId, Returned>>] =
                    [id |-> m_nextId, fn |-> "set", active |-> TRUE]]
    /\ subThread' = [subThread EXCEPT ![m_nextId] = t]
    /\ UNCHANGED <<m_pending, toProcess, pollpc, unsubscribed, emitLog, runLog,
                   notBus>>

\* emit that invokes the callbacks itself, on the emitting thread.
BusEmitDirect(t) ==
    /\ Len(emitLog) < MaxEmits
    /\ emitLog' = Append(emitLog, {m_listeners[i].id : i \in 1..Len(m_listeners)})
    /\ runLog' = RunAll(runLog, m_listeners, Len(emitLog) + 1, t)
    /\ UNCHANGED <<m_nextId, m_listeners, m_queues, m_pending, toProcess, pollpc, subs,
                   subThread, unsubscribed, notBus>>

\* EventBus::emit<T>(event) on thread t: under m_mutex, the wrapper of each
\* listener pushes a closure holding a copy of the callback and of the
\* event to the listener's queue.
BusEmit(t) ==
    /\ Len(emitLog) < MaxEmits
    /\ emitLog' = Append(emitLog, {m_listeners[i].id : i \in 1..Len(m_listeners)})
    /\ m_pending' = PushAll(m_pending, m_listeners, Len(emitLog) + 1)
    /\ UNCHANGED <<m_nextId, m_listeners, m_queues, toProcess, pollpc, subs, subThread,
                   unsubscribed, runLog, notBus>>

\* EventBus::poll() on thread t, up to the swap in ThreadQueue::poll: a
\* thread without a queue returns 0 at once.
BusPollSwap(t) ==
    /\ pollpc[t] = "idle"
    /\ IF t \in m_queues
       THEN /\ toProcess' = [toProcess EXCEPT ![t] = m_pending[t]]
            /\ m_pending' = [m_pending EXCEPT ![t] = <<>>]
            /\ pollpc' = [pollpc EXCEPT ![t] = "running"]
       ELSE UNCHANGED <<toProcess, m_pending, pollpc>>
    /\ UNCHANGED <<m_nextId, m_listeners, m_queues, subs, subThread, unsubscribed,
                   emitLog, runLog, notBus>>

\* ThreadQueue::poll runs the closure at the front of toProcess, with no
\* lock held, and pops it.
BusPollRun(t) ==
    /\ pollpc[t] = "running"
    /\ toProcess[t] # <<>>
    /\ runLog' = [runLog EXCEPT ![Head(toProcess[t]).id] =
                    Append(@, [event |-> Head(toProcess[t]).event, thread |-> t,
                               cancelled |-> Head(toProcess[t]).id \in unsubscribed])]
    /\ toProcess' = [toProcess EXCEPT ![t] = Tail(@)]
    /\ UNCHANGED <<m_nextId, m_listeners, m_queues, m_pending, pollpc, subs, subThread,
                   unsubscribed, emitLog, notBus>>

\* ThreadQueue::poll returns the count.
BusPollReturn(t) ==
    /\ pollpc[t] = "running"
    /\ toProcess[t] = <<>>
    /\ pollpc' = [pollpc EXCEPT ![t] = "idle"]
    /\ UNCHANGED <<m_nextId, m_listeners, m_queues, m_pending, toProcess, subs, subThread,
                   unsubscribed, emitLog, runLog, notBus>>

\* EventBus::unsubscribe(id): the listener is erased from the vector.
Unsubscribe(listeners, id) ==
    SelectSeq(listeners, LAMBDA l : l.id # id)

\* The test of cancel(): m_active and a function that is not empty.
Cancels(s) == s.active /\ s.fn = "set"

\* Subscription::cancel() on the handle k: with Cancels, the unsubscribe
\* function runs and m_active is cleared; else nothing.
SubCancel(k) ==
    /\ subs[k].id # 0
    /\ IF Cancels(subs[k])
       THEN /\ m_listeners' = Unsubscribe(m_listeners, subs[k].id)
            /\ unsubscribed' = unsubscribed \cup {subs[k].id}
            /\ subs' = [subs EXCEPT ![k].active = FALSE]
       ELSE UNCHANGED <<m_listeners, unsubscribed, subs>>
    /\ UNCHANGED <<m_nextId, m_queues, m_pending, toProcess, pollpc, subThread,
                   emitLog, runLog, notBus>>

\* Subscription's move constructor, from the handle subscribe returned:
\* the new handle takes id, function and m_active; the source is made
\* inactive and its function is a moved-from std::function.
SubMove(id) ==
    /\ subs[<<id, MovedTo>>] = NoSubscription
    /\ subs[<<id, Returned>>].id # 0
    /\ subs' = [subs EXCEPT ![<<id, MovedTo>>] = subs[<<id, Returned>>],
                            ![<<id, Returned>>] = [id |-> id, fn |-> "moved", active |-> FALSE]]
    /\ UNCHANGED <<m_nextId, m_listeners, m_queues, m_pending, toProcess, pollpc,
                   subThread, unsubscribed, emitLog, runLog, notBus>>

\* ~Subscription() on the handle k: cancel(), and the handle is gone.
SubDestroy(k) ==
    /\ subs[k].id # 0
    /\ IF Cancels(subs[k])
       THEN /\ m_listeners' = Unsubscribe(m_listeners, subs[k].id)
            /\ unsubscribed' = unsubscribed \cup {subs[k].id}
       ELSE UNCHANGED <<m_listeners, unsubscribed>>
    /\ subs' = [subs EXCEPT ![k] = [id |-> subs[k].id, fn |-> "destroyed", active |-> FALSE]]
    /\ UNCHANGED <<m_nextId, m_queues, m_pending, toProcess, pollpc, subThread,
                   emitLog, runLog, notBus>>

\* Subscribing, emitting, polling and cancelling.
BusNext ==
    \/ \E t \in BusThreads : BusSubscribe(t)
    \/ \E t \in BusThreads : BusEmit(t)
    \/ \E t \in BusThreads : BusPollSwap(t)
    \/ \E t \in BusThreads : BusPollRun(t)
    \/ \E t \in BusThreads : BusPollReturn(t)
    \/ \E id \in SubIds : SubCancel(<<id, Returned>>)

\* The same with the handles moved and destroyed.
SubscriptionNext ==
    \/ \E t \in BusThreads : BusSubscribe(t)
    \/ \E t \in BusThreads : BusEmit(t)
    \/ \E t \in BusThreads : BusPollSwap(t)
    \/ \E t \in BusThreads : BusPollRun(t)
    \/ \E t \in BusThreads : BusPollReturn(t)
    \/ \E k \in SubHandles : SubCancel(k)
    \/ \E id \in SubIds : SubMove(id)
    \/ \E k \in SubHandles : SubDestroy(k)

(***************************************************************************)
(* The heartbeat engine by itself: HeartbeatManager::start, stop,          *)
(* onPongReceived and the statements of timerLoop, one step per access to  *)
(* running_, waitingPong_, mutex_ and cv_.                                 *)
(***************************************************************************)
EngineInit ==
    /\ running_ = FALSE
    /\ waitingPong_ = FALSE
    /\ engMutex = "free"
    /\ engPc = "none"
    /\ engNotified = FALSE
    /\ stopPc = "idle"
    /\ engCycle = [n |-> 0, timeouts |-> 0, pings |-> 0, sent |-> FALSE]
    /\ engUnanswered = 0
    /\ engLast = "none"

\* start(sendPing, sendTextPing, onTimeout) with a mode that is not
\* Disabled: under mutex_, running_ = true, waitingPong_ = false, and the
\* worker thread is made.
EngStart ==
    /\ engPc \in {"none", "joined"}
    /\ stopPc = "idle"
    /\ engMutex = "free"
    /\ ~running_
    /\ engCycle.n < MaxTicks
    /\ running_' = TRUE
    /\ waitingPong_' = FALSE
    /\ engPc' = "test"
    /\ engLast' = "start"
    /\ engUnanswered' = 0
    /\ UNCHANGED <<engMutex, engNotified, stopPc, engCycle, notEngine>>

\* timerLoop: while (running_).
EngLoopTest ==
    /\ engPc = "test"
    /\ engPc' = IF running_ THEN "config" ELSE "done"
    /\ UNCHANGED <<running_, waitingPong_, engMutex, engNotified, stopPc, engCycle,
                   engUnanswered, engLast, notEngine>>

\* timerLoop: interval, timeout and mode are read under mutex_.
EngConfig ==
    /\ engPc = "config"
    /\ engMutex = "free"
    /\ engPc' = "wait_enter"
    /\ engCycle' = [n |-> engCycle.n + 1, timeouts |-> 0, pings |-> 0, sent |-> FALSE]
    /\ UNCHANGED <<running_, waitingPong_, engMutex, engNotified, stopPc, engUnanswered,
                   engLast, notEngine>>

\* A wait that blocks without testing the predicate first.
EngWaitEnterNoPredicate ==
    /\ engPc = "wait_enter"
    /\ engMutex = "free"
    /\ engPc' = "waiting"
    /\ engNotified' = FALSE
    /\ UNCHANGED <<running_, waitingPong_, engMutex, stopPc, engCycle, engUnanswered,
                   engLast, notEngine>>

\* cv_.wait_for(waitLock, interval, pred) begins: with mutex_ held the
\* predicate !running_ is tested; when it holds the wait returns, else the
\* thread blocks and releases mutex_ in one step.
EngWaitEnter ==
    /\ engPc = "wait_enter"
    /\ engMutex = "free"
    /\ engPc' = IF ~running_ THEN "after_wait" ELSE "waiting"
    /\ engNotified' = FALSE
    /\ UNCHANGED <<running_, waitingPong_, engMutex, stopPc, engCycle, engUnanswered,
                   engLast, notEngine>>

\* The blocked worker is notified: it takes mutex_ again and tests the
\* predicate; when it does not hold it blocks again.
EngWaitNotified ==
    /\ engPc = "waiting"
    /\ engNotified
    /\ engMutex = "free"
    /\ engNotified' = FALSE
    /\ engPc' = IF ~running_ THEN "after_wait" ELSE "waiting"
    /\ UNCHANGED <<running_, waitingPong_, engMutex, stopPc, engCycle, engUnanswered,
                   engLast, notEngine>>

\* The interval has elapsed: wait_for returns.
EngWaitElapsed ==
    /\ engPc = "waiting"
    /\ engMutex = "free"
    /\ engCycle.n < MaxTicks
    /\ engPc' = "after_wait"
    /\ engNotified' = FALSE
    /\ UNCHANGED <<running_, waitingPong_, engMutex, stopPc, engCycle, engUnanswered,
                   engLast, notEngine>>

\* timerLoop: if (!running_) break.
EngAfterWait ==
    /\ engPc = "after_wait"
    /\ engPc' = IF ~running_ THEN "done" ELSE "check"
    /\ UNCHANGED <<running_, waitingPong_, engMutex, engNotified, stopPc, engCycle,
                   engUnanswered, engLast, notEngine>>

\* timerLoop: if (waitingPong_) and now - lastPingSent_ > timeout, the
\* timeout is detected; else the cycle goes on to send.
EngCheck ==
    /\ engPc = "check"
    /\ \E late \in BOOLEAN :
          IF waitingPong_ /\ late
          THEN /\ engPc' = "timeout_cb"
               /\ engLast' = "timeout"
          ELSE /\ engPc' = "send"
               /\ UNCHANGED engLast
    /\ UNCHANGED <<running_, waitingPong_, engMutex, engNotified, stopPc, engCycle,
                   engUnanswered, notEngine>>

\* timerLoop: onTimeout_().
EngTimeoutCallback ==
    /\ engPc = "timeout_cb"
    /\ engCycle' = [engCycle EXCEPT !.timeouts = @ + 1]
    /\ engPc' = "timeout_clear"
    /\ UNCHANGED <<running_, waitingPong_, engMutex, engNotified, stopPc, engUnanswered,
                   engLast, notEngine>>

\* timerLoop: waitingPong_ = false; continue.
EngTimeoutClear ==
    /\ engPc = "timeout_clear"
    /\ waitingPong_' = FALSE
    /\ engPc' = "test"
    /\ UNCHANGED <<running_, engMutex, engNotified, stopPc, engCycle, engUnanswered,
                   engLast, notEngine>>

\* timerLoop: sent = sendPing_() or sendTextPing_(text): the callback
\* writes the ping frame and returns true, or fails and returns false.
EngSend ==
    /\ engPc = "send"
    /\ \E sent \in BOOLEAN :
          /\ engCycle' = [engCycle EXCEPT !.pings = @ + 1, !.sent = sent]
          /\ engLast' = IF sent THEN "send" ELSE engLast
          /\ engUnanswered' = IF sent THEN engUnanswered + 1 ELSE engUnanswered
          /\ engPc' = IF sent THEN "sent_store" ELSE "test"
    /\ UNCHANGED <<running_, waitingPong_, engMutex, engNotified, stopPc, notEngine>>

\* timerLoop: if (sent) { lastPingSent_ = now; waitingPong_ = true; }
EngSentStore ==
    /\ engPc = "sent_store"
    /\ waitingPong_' = TRUE
    /\ engPc' = "test"
    /\ UNCHANGED <<running_, engMutex, engNotified, stopPc, engCycle, engUnanswered,
                   engLast, notEngine>>

\* onPongReceived(), called by the I/O thread when the peer's Pong for a
\* ping on the wire arrives: waitingPong_ = false.
EngPong ==
    /\ engUnanswered > 0
    /\ engUnanswered' = engUnanswered - 1
    /\ waitingPong_' = FALSE
    /\ engLast' = "pong"
    /\ UNCHANGED <<running_, engMutex, engPc, engNotified, stopPc, engCycle, notEngine>>

\* stop(), on another thread, up to the end of its locked block: with
\* running_ false it returns, else running_ = false.
EngStopLock ==
    /\ stopPc = "idle"
    /\ engPc # "none"
    /\ engMutex = "free"
    /\ IF ~running_
       THEN /\ stopPc' = "returned"
            /\ UNCHANGED running_
       ELSE /\ running_' = FALSE
            /\ stopPc' = "notify"
    /\ UNCHANGED <<waitingPong_, engMutex, engPc, engNotified, engCycle, engUnanswered,
                   engLast, notEngine>>

\* stop(): cv_.notify_all(): a worker blocked in the wait is woken, a
\* worker anywhere else is not touched.
EngStopNotify ==
    /\ stopPc = "notify"
    /\ engNotified' = (engPc = "waiting")
    /\ stopPc' = "join"
    /\ UNCHANGED <<running_, waitingPong_, engMutex, engPc, engCycle, engUnanswered,
                   engLast, notEngine>>

\* stop(): timerThread_.join() returns when the worker has left timerLoop.
EngStopJoin ==
    /\ stopPc = "join"
    /\ engPc = "done"
    /\ engPc' = "joined"
    /\ stopPc' = "returned"
    /\ UNCHANGED <<running_, waitingPong_, engMutex, engNotified, engCycle, engUnanswered,
                   engLast, notEngine>>

\* The caller of stop() goes on.
EngStopReturn ==
    /\ stopPc = "returned"
    /\ stopPc' = "idle"
    /\ UNCHANGED <<running_, waitingPong_, engMutex, engPc, engNotified, engCycle,
                   engUnanswered, engLast, notEngine>>

\* The steps of the worker that need nothing but the processor.
EngWorkerStep ==
    \/ EngLoopTest
    \/ EngConfig
    \/ EngWaitEnter
    \/ EngWaitNotified
    \/ EngAfterWait
    \/ EngCheck
    \/ EngTimeoutCallback
    \/ EngTimeoutClear
    \/ EngSend
    \/ EngSentStore

\* The steps of the thread in stop().
EngStopStep ==
    \/ EngStopNotify
    \/ EngStopJoin

EngineNext ==
    \/ EngStart
    \/ EngWorkerStep
    \/ EngWaitElapsed
    \/ EngPong
    \/ EngStopLock
    \/ EngStopStep
    \/ EngStopReturn

(***************************************************************************)
(* The release of the transport: cleanup() at the end of disconnect(),     *)
(* next to the threads of the frame write path.                            *)
(***************************************************************************)
TeardownInit == released = FALSE

\* disconnect(), after sendCloseFrame has returned (or was skipped) and the
\* I/O thread was joined: cleanup() shuts down and frees the TLS session
\* and closes the socket; it takes no lock.
Cleanup ==
    /\ ~released
    /\ calls[Closer] > 0
    /\ wpc[Closer] = "idle"
    /\ released' = TRUE
    /\ UNCHANGED <<qvars, connected, wvars, notTeardown>>

TeardownNext ==
    \/ WireNext
    \/ Cleanup

(***************************************************************************)
(* disconnect() called from inside a user callback.  The callbacks of the  *)
(* I/O thread (handleMessage, handlePing, handlePong, triggerError) and    *)
(* the PingTimeout triggerError of the heartbeat worker run with           *)
(* callbackMutex held; disconnect() stops the heartbeat, joins the I/O     *)
(* thread and ends in triggerDisconnect.  A third thread calls             *)
(* disconnect() outside any callback.                                      *)
(***************************************************************************)
RdThreads == {"io", "hb", "user"}
RdWorkers == {"io", "hb"}

\* The callbacks each worker thread dispatches under callbackMutex.
RdCallbacks(t) ==
    IF t = "io" THEN {"onRawMessage", "onMessage", "onPing", "onPong", "onError"}
                ELSE {"onError"}

\* connect() has returned true: the I/O thread and the heartbeat worker run.
ReentryInit ==
    /\ cbHolder = "none"
    /\ rpc = [t \in RdThreads |-> "loop"]
    /\ rcb = [t \in RdThreads |-> "none"]
    /\ rdConnected = TRUE
    /\ rdRunning = TRUE
    /\ rdHbRunning = TRUE
    /\ rdTimerJoinable = TRUE
    /\ rdIoJoinable = TRUE
    /\ rdWas = [t \in RdThreads |-> FALSE]

\* ioLoop: while (running) ... readFrame() hands a frame to its handler;
\* timerLoop: running_ was true after the wait and the pong timed out, so
\* onTimeout_() calls triggerError(PingTimeout).  The handler is about to take
\* callbackMutex.
RdDispatch(t, cb) ==
    /\ t \in RdWorkers
    /\ cb \in RdCallbacks(t)
    /\ rpc[t] = "loop"
    /\ IF t = "io" THEN rdRunning ELSE rdHbRunning
    /\ rpc' = [rpc EXCEPT ![t] = "cb_lock"]
    /\ rcb' = [rcb EXCEPT ![t] = cb]
    /\ UNCHANGED <<cbHolder, rdConnected, rdRunning, rdHbRunning, rdTimerJoinable, rdIoJoinable, rdWas, notReentry>>

\* std::lock_guard lock(callbackMutex); if (cb) cb(...): the callback runs
\* with the mutex held.
RdDispatchEnter(t) ==
    /\ rpc[t] = "cb_lock"
    /\ cbHolder = "none"
    /\ cbHolder' = t
    /\ rpc' = [rpc EXCEPT ![t] = "in_cb"]
    /\ UNCHANGED <<rcb, rdConnected, rdRunning, rdHbRunning, rdTimerJoinable, rdIoJoinable, rdWas, notReentry>>

\* The callback returns; the lock_guard releases callbackMutex.
RdCallbackReturn(t) ==
    /\ rpc[t] = "in_cb"
    /\ cbHolder' = "none"
    /\ rpc' = [rpc EXCEPT ![t] = "loop"]
    /\ rcb' = [rcb EXCEPT ![t] = "none"]
    /\ UNCHANGED <<rdConnected, rdRunning, rdHbRunning, rdTimerJoinable, rdIoJoinable, rdWas, notReentry>>

\* The callback (or, for the user thread, the application) calls
\* disconnect().
RdCallDisconnect(t) ==
    /\ \/ t \in RdWorkers /\ rpc[t] = "in_cb"
       \/ t = "user" /\ rpc[t] = "loop"
    /\ rpc' = [rpc EXCEPT ![t] = "d_exchange"]
    /\ UNCHANGED <<cbHolder, rcb, rdConnected, rdRunning, rdHbRunning, rdTimerJoinable, rdIoJoinable, rdWas, notReentry>>

\* disconnect(): wasConnected = connected.exchange(false);
\* running.store(false).
RdExchange(t) ==
    /\ rpc[t] = "d_exchange"
    /\ rdWas' = [rdWas EXCEPT ![t] = rdConnected]
    /\ rdConnected' = FALSE
    /\ rdRunning' = FALSE
    /\ rpc' = [rpc EXCEPT ![t] = "d_hbstop"]
    /\ UNCHANGED <<cbHolder, rcb, rdHbRunning, rdTimerJoinable, rdIoJoinable, notReentry>>

\* HeartbeatManager::stop(): under mutex_, if (!running_) return;
\* running_.store(false); then cv_.notify_all().
RdHbStop(t) ==
    /\ rpc[t] = "d_hbstop"
    /\ rdHbRunning' = FALSE
    /\ rpc' = [rpc EXCEPT ![t] = IF rdHbRunning THEN "d_hbjoin" ELSE "d_close"]
    /\ UNCHANGED <<cbHolder, rcb, rdConnected, rdRunning, rdTimerJoinable, rdIoJoinable, rdWas, notReentry>>

\* HeartbeatManager::stop(): if (timerThread_.joinable()) timerThread_.join().
\* join() on the calling thread itself throws std::system_error
\* (resource_deadlock_would_occur); on another thread it returns once the
\* worker has left timerLoop.
RdHbJoin(t) ==
    /\ rpc[t] = "d_hbjoin"
    /\ IF ~rdTimerJoinable
       THEN rpc' = [rpc EXCEPT ![t] = "d_close"] /\ UNCHANGED rdTimerJoinable
       ELSE IF t = "hb"
       THEN rpc' = [rpc EXCEPT ![t] = "threw"] /\ UNCHANGED rdTimerJoinable
       ELSE /\ rpc["hb"] = "exited"
            /\ rdTimerJoinable' = FALSE
            /\ rpc' = [rpc EXCEPT ![t] = "d_close"]
    /\ UNCHANGED <<cbHolder, rcb, rdConnected, rdRunning, rdHbRunning, rdIoJoinable, rdWas, notReentry>>

\* disconnect(): if (wasConnected) sendCloseFrame(code); waitCv.notify_all().
RdSendClose(t) ==
    /\ rpc[t] = "d_close"
    /\ rpc' = [rpc EXCEPT ![t] = "d_iojoin"]
    /\ UNCHANGED <<cbHolder, rcb, rdConnected, rdRunning, rdHbRunning, rdTimerJoinable, rdIoJoinable, rdWas, notReentry>>

\* disconnect(): if (ioThread.joinable()) ioThread.join(): on the I/O thread
\* itself join() throws std::system_error; on another thread it returns once
\* ioLoop has ended.
RdIoJoin(t) ==
    /\ rpc[t] = "d_iojoin"
    /\ IF ~rdIoJoinable
       THEN rpc' = [rpc EXCEPT ![t] = "d_cleanup"] /\ UNCHANGED rdIoJoinable
       ELSE IF t = "io"
       THEN rpc' = [rpc EXCEPT ![t] = "threw"] /\ UNCHANGED rdIoJoinable
       ELSE /\ rpc["io"] = "exited"
            /\ rdIoJoinable' = FALSE
            /\ rpc' = [rpc EXCEPT ![t] = "d_cleanup"]
    /\ UNCHANGED <<cbHolder, rcb, rdConnected, rdRunning, rdHbRunning, rdTimerJoinable, rdWas, notReentry>>

\* disconnect(): cleanup(); if (wasConnected) triggerDisconnect(code), which
\* locks callbackMutex and invokes onDisconnect.  Locking a std::mutex the
\* thread already holds is undefined: the thread blocks on itself, or lock()
\* throws and the process terminates, or the lock is taken again.
RdCleanupTrigger(t) ==
    /\ rpc[t] = "d_cleanup"
    /\ IF ~rdWas[t]
       THEN rpc' = [rpc EXCEPT ![t] = "d_returned"]
       ELSE IF cbHolder = t
       THEN \/ rpc' = [rpc EXCEPT ![t] = "blocked"]
            \/ rpc' = [u \in RdThreads |-> "terminated"]
            \/ rpc' = [rpc EXCEPT ![t] = "d_returned"]
       ELSE /\ cbHolder = "none"
            /\ rpc' = [rpc EXCEPT ![t] = "d_returned"]
    /\ UNCHANGED <<cbHolder, rcb, rdConnected, rdRunning, rdHbRunning, rdTimerJoinable, rdIoJoinable, rdWas, notReentry>>

\* disconnect() has returned to its caller.
RdDisconnectReturn(t) ==
    /\ rpc[t] = "d_returned"
    /\ rpc' = [rpc EXCEPT ![t] = IF t = "user" THEN "loop" ELSE "in_cb"]
    /\ UNCHANGED <<cbHolder, rcb, rdConnected, rdRunning, rdHbRunning, rdTimerJoinable, rdIoJoinable, rdWas, notReentry>>

\* The std::system_error leaves disconnect(): the callback catches it and
\* goes on, or nothing does and std::terminate ends the process.
RdThrow(t) ==
    /\ rpc[t] = "threw"
    /\ \/ rpc' = [rpc EXCEPT ![t] = "in_cb"]
       \/ rpc' = [u \in RdThreads |-> "terminated"]
    /\ UNCHANGED <<cbHolder, rcb, rdConnected, rdRunning, rdHbRunning, rdTimerJoinable, rdIoJoinable, rdWas, notReentry>>

\* ioLoop leaves while (running); timerLoop sees !running_ and breaks.
RdWorkerExit(t) ==
    /\ t \in RdWorkers
    /\ rpc[t] = "loop"
    /\ IF t = "io" THEN ~rdRunning ELSE ~rdHbRunning
    /\ rpc' = [rpc EXCEPT ![t] = "exited"]
    /\ UNCHANGED <<cbHolder, rcb, rdConnected, rdRunning, rdHbRunning, rdTimerJoinable, rdIoJoinable, rdWas, notReentry>>

\* The steps a thread takes by itself once it can.
RdProgress(t) ==
    \/ RdDispatchEnter(t)
    \/ RdCallbackReturn(t)
    \/ RdExchange(t)
    \/ RdHbStop(t)
    \/ RdHbJoin(t)
    \/ RdSendClose(t)
    \/ RdIoJoin(t)
    \/ RdCleanupTrigger(t)
    \/ RdDisconnectReturn(t)
    \/ RdThrow(t)
    \/ RdWorkerExit(t)

ReentryNext ==
    \/ \E t \in RdWorkers : \E cb \in RdCallbacks(t) : RdDispatch(t, cb)
    \/ \E t \in RdThreads : RdCallDisconnect(t)
    \/ \E t \in RdThreads : RdProgress(t)

(***************************************************************************)
(* Specifications                                                          *)
(***************************************************************************)
\* The components a specification does not exercise, as constructed.
ComponentsInit == PoolInit /\ CallbacksInit /\ CodecInit /\ ReaderInit /\
    AffinityInit /\ UrlInit /\ BusInit /\ EngineInit /\ TeardownInit /\
    ReentryInit

\* All components but one, as constructed.
ComponentsButCodec == PoolInit /\ CallbacksInit /\ ReaderInit /\
    AffinityInit /\ UrlInit /\ BusInit /\ EngineInit /\ TeardownInit /\
    ReentryInit

\* All components but one, as constructed.
ComponentsButUrl == PoolInit /\ CallbacksInit /\ CodecInit /\ ReaderInit /\
    AffinityInit /\ BusInit /\ EngineInit /\ TeardownInit /\ ReentryInit

\* The session as constructed, for the specifications of the components.
SessionIdle ==
    /\ QueueInit /\ WireInit /\ connected = FALSE
    /\ SessionInit(TRUE, DefaultMaxReconnectAttempts, TRUE, TRUE, "Opcode")

InitQueue ==
    /\ QueueInit /\ WireInit /\ connected = FALSE /\ ComponentsInit
    /\ SessionInit(TRUE, DefaultMaxReconnectAttempts, TRUE, TRUE, "Opcode")

SpecQueue == InitQueue /\ [][QueueNext]_vars

\* The producers run to completion and the consumer keeps popping.
SpecQueueFair ==
    /\ InitQueue
    /\ [][QueueNext]_vars
    /\ \A p \in Producers : WF_vars(PushExchange(p)) /\ WF_vars(PushLink(p))
    /\ WF_vars(Pop)

\* An open connection (connect() returned true) with nothing written yet.
InitWire ==
    /\ QueueInit /\ WireInit /\ connected = TRUE /\ ComponentsInit
    /\ SessionInit(TRUE, DefaultMaxReconnectAttempts, TRUE, TRUE, "Opcode")

SpecWire == InitWire /\ [][WireNext]_vars

\* An open connection whose I/O thread drains the async queue while the
\* producers call sendAsync.
InitAsync ==
    /\ QueueInit /\ WireInit /\ connected = TRUE /\ ComponentsInit
    /\ SessionInit(TRUE, DefaultMaxReconnectAttempts, TRUE, TRUE, "Opcode")

SpecAsync == InitAsync /\ [][AsyncNext]_vars

\* The same session with a thread that calls disconnect() during the drain.
InitAsyncClose ==
    /\ QueueInit /\ WireInit /\ connected = TRUE /\ ComponentsInit
    /\ SessionInit(TRUE, DefaultMaxReconnectAttempts, TRUE, TRUE, "Opcode")

SpecAsyncClose == InitAsyncClose /\ [][AsyncCloseNext]_vars

\* A pool of PoolSize buffers used by the threads of PoolThreads.
InitPool == SessionIdle /\ ComponentsInit

SpecPool == InitPool /\ [][PoolNext]_vars

\* An I/O loop on an open connection, reading what the peer sends.
InitReader == SessionIdle /\ ComponentsInit

SpecReader == InitReader /\ [][ReaderNext]_vars

\* A session whose user sets the core pin while I/O threads start and end.
InitAffinity == SessionIdle /\ ComponentsInit

SpecAffinity == InitAffinity /\ [][AffinityNext]_vars

\* parseUrl on every URL of the input set.
InitUrl ==
    /\ SessionIdle
    /\ ComponentsButUrl
    /\ \E scheme \in UrlSchemes, host \in UrlHosts, port \in UrlPorts, path \in UrlPaths :
          UrlStart(scheme, host, port, path)

SpecUrl == InitUrl /\ [][UrlNext]_vars

\* An event bus used by two threads.
InitBus == SessionIdle /\ ComponentsInit

SpecBus == InitBus /\ [][BusNext]_vars

\* The same bus, with Subscription handles moved and destroyed.
InitSubscription == SessionIdle /\ ComponentsInit

SpecSubscription == InitSubscription /\ [][SubscriptionNext]_vars

\* A heartbeat engine, started, stopped and restarted, with a peer that
\* answers pings.
InitEngine == SessionIdle /\ ComponentsInit

SpecEngine == InitEngine /\ [][EngineNext]_vars

\* An open connection with threads sending and a thread in disconnect(),
\* up to its cleanup().
InitTeardown ==
    /\ QueueInit /\ WireInit /\ connected = TRUE /\ ComponentsInit
    /\ SessionInit(TRUE, DefaultMaxReconnectAttempts, TRUE, TRUE, "Opcode")

SpecTeardown == InitTeardown /\ [][TeardownNext]_vars

\* An open session whose callbacks may call disconnect().
InitReentry == SessionIdle /\ ComponentsInit

SpecReentry == InitReentry /\ [][ReentryNext]_vars

\* Every thread that can take a step of its own eventually takes one.
SpecReentryFair ==
    /\ SpecReentry
    /\ \A t \in RdThreads : WF_vars(RdProgress(t))

\* The same with the threads scheduled: the worker and the thread in stop()
\* take the steps that are enabled; the elapse of the interval is not
\* promised.
SpecEngineFair ==
    InitEngine /\ [][EngineNext]_vars /\ WF_vars(EngWorkerStep) /\ WF_vars(EngStopStep)

\* One call of sendFrame for each input of CodecInputs.
InitCodec ==
    /\ SessionIdle /\ ComponentsButCodec
    /\ \E in \in CodecInputs :
        CodecStart(in[4], PayloadOf(in[1], in[2]), in[3], in[5])

SpecCodec == InitCodec /\ [][CodecNext]_vars

\* The callback slots of a constructed session; the dispatching thread and
\* the user thread are scheduled fairly.
InitCallbacks == SessionIdle /\ ComponentsInit

DispatcherStep ==
    \/ \E s \in CallbackSlots : DispatchLock(s)
    \/ CallbackReturn \/ CallbackSetterLock \/ CallbackSetterStore
    \/ CallbackReturnUnlocked

SpecCallbacks ==
    InitCallbacks /\ [][CallbacksNext]_vars
        /\ WF_vars(DispatcherStep) /\ WF_vars(SetterStore)

\* A session as constructed, for every configuration of the reconnection
\* policy.
InitSession ==
    /\ QueueInit /\ WireInit /\ connected = FALSE /\ ComponentsInit
    /\ \E ar \in BOOLEAN : \E mx \in 0..MaxAttemptsCfg :
         SessionInit(ar, mx, TRUE, TRUE, "Opcode")

SpecSession == InitSession /\ [][SessionNext]_vars

\* A session with the heartbeat disabled, for every configuration of the URL
\* (valid or not, ws or wss) and of the reconnection policy.
InitConnect ==
    /\ QueueInit /\ WireInit /\ connected = FALSE /\ ComponentsInit
    /\ \E ar \in BOOLEAN : \E mx \in 0..MaxAttemptsCfg :
       \E sec \in BOOLEAN : \E uv \in BOOLEAN :
         SessionInit(ar, mx, sec, uv, "Disabled")

SpecConnect == InitConnect /\ [][ConnectNext]_vars

\* An open session, for every interval and pong deadline of the bound.  The
\* two differ: at interval = timeout the strict comparison of timerLoop is
\* decided by the clock's granularity.
InitHeartbeat ==
    /\ QueueInit /\ WireInit /\ connected = TRUE /\ ComponentsInit
    /\ \E iv \in 1..MaxTicks : \E tmo \in 1..MaxTicks :
        iv # tmo /\ OpenSessionInit(iv, tmo, TRUE)

SpecHeartbeat == InitHeartbeat /\ [][HeartbeatNext]_vars

\* Each thread of the session is scheduled again and again; the user is free
\* never to make another call, and the peer never to send another frame.
IoThreadStep ==
    \/ IoLoopTop \/ IoNoData \/ IoCheckConnected \/ HdStoreConnected
    \/ HandlePingPong \/ HandlePingCallback \/ IoPingReturn
    \/ HdCheckReconnect \/ HdBackoffCleanup \/ HdGiveUp \/ IoExit
    \/ ConnectCheckUrl("io") \/ ConnectInitSocket("io") \/ ConnectSocket("io")
    \/ ConnectInitTls("io") \/ ConnectHandshake("io") \/ ConnectMark("io")
    \/ ConnectSpawn("io") \/ ConnectAssign("io")
HbThreadStep == HbLoopTop \/ HbWake \/ HbTimeout \/ HbSendPing
UserCallStep ==
    \/ DiscClearRunning \/ DiscStopHeartbeat \/ DiscJoinHeartbeat
    \/ DiscSendClose \/ DiscJoinIo \/ DiscCleanup \/ DiscTriggerDisconnect
    \/ DiscReturn \/ SetModeReturn \/ SetModeStop
Scheduling ==
    /\ WF_vars(IoThreadStep) /\ WF_vars(HbThreadStep) /\ WF_vars(UserCallStep)

\* An open session with the default heartbeat, auto-pong on or off.
InitOpen ==
    /\ QueueInit /\ WireInit /\ connected = TRUE /\ ComponentsInit
    /\ \E ap \in BOOLEAN :
        OpenSessionInit(DefaultIntervalTicks, DefaultTimeoutTicks, ap)

SpecOpen == InitOpen /\ [][OpenNext]_vars /\ Scheduling

(***************************************************************************)
(* Claims                                                                  *)
(***************************************************************************)
AllItems == {Item(p, k) : p \in Producers, k \in 1..ItemsPerProducer}
PoppedSet == {popped[i] : i \in 1..Len(popped)}

\* C1: per-producer FIFO: of two items pushed by the same producer, the one
\* pushed first is popped first, in every interleaving.
C1_PerProducerFifo ==
    \A i, j \in 1..Len(popped) :
        (i < j /\ popped[i][1] = popped[j][1]) => popped[i][2] < popped[j][2]

\* Two producers' items were popped interleaved, and one producer's two
\* items are both out.
C1_Witness ==
    /\ Len(popped) >= 3
    /\ popped[1][1] # popped[2][1]
    /\ \E i, j \in 1..Len(popped) : i < j /\ popped[i][1] = popped[j][1]

\* C2: with N producers pushing K items each and a consumer that keeps
\* popping, no item is ever returned twice, only pushed items are returned,
\* and eventually exactly the N*K pushed items have been popped.
C2_AllPoppedExactlyOnce ==
    /\ [](/\ Cardinality(PoppedSet) = Len(popped)
          /\ PoppedSet \subseteq AllItems
          /\ ~useAfterFree)
    /\ <>[](Len(popped) = NumProducers * ItemsPerProducer /\ PoppedSet = AllItems)

\* Every item is out while the pops ran concurrently with the pushes
\* (the consumer saw an empty queue before the last push).
C2_Witness ==
    /\ Len(popped) = NumProducers * ItemsPerProducer
    /\ PoppedSet = AllItems
    /\ \A p \in Producers : pushed[p] = ItemsPerProducer


\* C4: at most one I/O thread exists per session in every reachable state:
\* after connect(), after a second connect() on a connected session, and
\* while handleDisconnect calls connect() from inside the running I/O thread.
C4_AtMostOneIoThread == ioThreads <= 1

C6_DisconnectIdempotentOnce ==
    /\ (redundantCall /\ pc["user"] = "d_ret") => SessionState = snapshot
    /\ nOnDisconnect <= 1

\* C7: no user callback is invoked after disconnect() has returned: at return
\* the I/O thread and the heartbeat thread have ended, and no callback runs
\* until the user calls connect() again.
C7_NoCallbackAfterDisconnect ==
    /\ ~lateCallback
    /\ disconnectReturned =>
        /\ pc["io"] = "none"
        /\ pc["hb"] = "none"
        /\ ioThreads = 0
        /\ ~timerJoinable
        /\ ~ioJoinable

\* disconnect() has returned on a connection that was open: its onDisconnect
\* ran with the user's code, and both workers had been started.
C7_Witness ==
    /\ disconnectReturned
    /\ wasConnected
    /\ nOnDisconnect = 1
    /\ lastDisconnectCode = discCode
    /\ closeFrames = 1

\* C8: once the user has called disconnect(1000), the session starts no
\* reconnection attempt (no new socket, no new handshake), even with
\* autoReconnect enabled and attempts remaining.
C8_NormalDisconnectSuppressesReconnect ==
    [][normalDisconnect => ~(pc["io"] = "c_init" /\ pc'["io"] # "c_init")]_vars

\* C9: with autoReconnect and maxReconnectAttempts = N >= 1, when a read
\* failure drops the connection and every reconnection attempt fails, the
\* session has made exactly N attempts when it invokes onDisconnect(1006).
C9_ExactlyMaxAttempts ==
    (pc["io"] = "hd_done" /\ autoReconnect /\ maxReconnectAttempts >= 1) =>
        /\ attemptsMade = maxReconnectAttempts
        /\ lastDisconnectCode = CloseAbnormal

\* C10: the reconnect attempt counter is 0 when connect() marks the session
\* open (from the user or from the reconnection path), and in every state
\* 0 <= counter <= maxReconnectAttempts.
C10_CounterResetAndBounded ==
    /\ [](0 <= reconnectAttempts /\ reconnectAttempts <= maxReconnectAttempts)
    /\ [][\A t \in ConnectThreads :
            (pc[t] = "c_mark" /\ pc'[t] = "c_spawn") =>
                (connected' /\ reconnectAttempts' = 0)]_vars

\* The reconnection path has just marked the session open again.
C10_Witness ==
    /\ pc["io"] = "c_spawn"
    /\ connected
    /\ attemptsMade = 1
    /\ reconnectAttempts = 0


\* C11: when the peer sends a Close frame on an open connection, the I/O loop
\* exits and onDisconnect has been invoked exactly once, with the effective
\* code: the 2-byte big-endian code of the payload, or NoStatusReceived.
C11_PeerCloseEmitsDisconnect ==
    (closeCode # 0 /\ pc["io"] = "none") =>
        (nOnDisconnect = 1 /\ lastDisconnectCode = closeCode)

\* C12: when a Close frame was received while open, the client has written a
\* Close frame in reply by the time the I/O loop has exited, carrying the
\* received status code when the payload had one.
C12_PeerCloseIsAnswered ==
    (closeCode # 0 /\ pc["io"] = "none") =>
        /\ closeFrames >= 1
        /\ closeCode # NoStatusReceived => sentCloseCode = closeCode

\* C13: every teardown runs the same ordered steps, so whenever onDisconnect
\* is invoked the heartbeat worker has been stopped and joined and the
\* transport has been released.
C13_UnifiedTeardown ==
    [][nOnDisconnect' > nOnDisconnect =>
        (~hbRunning' /\ pc'["hb"] = "none" /\ socket' = "none")]_vars

\* C14: a ping that was sent and is never answered raises the timeout no
\* later than the first wake-up of the worker after interval + timeout has
\* elapsed since it was sent, whatever the interval and the pong deadline.
C14_PingTimeoutWithinDeadline ==
    pingAt # NoPing => lastWake <= pingAt + hbInterval + hbTimeout

\* C15: a pong timeout is fatal for the connection: once onError(PingTimeout)
\* was raised on an open connection, the connection is torn down, so
\* isConnected() eventually becomes false (left aside the runs in which the
\* process was terminated or the user's thread is blocked inside setMode).
C15_PingTimeoutIsFatal ==
    timedOut ~> (~connected \/ terminated \/ pc["user"] = "sm_blocked")

\* C16: setMode(Disabled), called while the worker is running, stops the
\* worker: the call returns and the worker thread has ended.
C16_SetModeDisabledStopsWorker ==
    (pc["user"] = "sm_set" /\ hbMode = "Disabled" /\ pc["hb"] # "none")
        ~> (pc["user"] = "idle" /\ pc["hb"] = "none")

C18_TooLargeClosesWith1009 ==
    tooLarge =>
        /\ pc["io"] # "hd_backoff"
        /\ pc["io"] = "hd_done" => lastDisconnectCode = MessageTooBig

\* C19: Connected is published only after the upgrade response is validated:
\* the connected flag rises, and onConnect is invoked, only in a step of a
\* connect() whose performHandshake accepted a response with 101 and Upgrade.
C19_ConnectedOnlyAfterAcceptedUpgrade ==
    [][/\ (~connected /\ connected') =>
            \E t \in ConnectThreads :
                /\ pc[t] = "c_mark"
                /\ Accepts(connectCall[t].response)
       /\ \A t \in ConnectThreads :
            (connectCall'[t].events \ connectCall[t].events)
                \cap {"connected", "onConnect"} # {}
                => Accepts(connectCall[t].response)]_vars

\* A connect() of the user has returned true: its handshake response was
\* accepted, then connected was set and onConnect invoked.
C19_Witness ==
    /\ pc["user"] = "c_ret_true"
    /\ connected
    /\ {"connected", "onConnect"} \subseteq connectCall["user"].events
    /\ Accepts(connectCall["user"].response)

\* C20: a connect() of the user whose setup step failed, on a session with no
\* I/O thread, returns false with onError given the code of the failed step,
\* has set no connected flag, invoked no onConnect and started no thread, and
\* leaves the socket and the TLS objects released.
C20_FailedConnectReleasesAll ==
    (connectCall["user"].step # "none" /\ pc["io"] = "none") =>
        /\ pc["user"] = "c_ret_false"
        /\ connectCall["user"].error =
             ( CASE connectCall["user"].step = "url" -> ErrInvalidUrl
                 [] connectCall["user"].step = "socket" -> ErrConnectionFailed
                 [] connectCall["user"].step = "connect" -> ErrConnectionFailed
                 [] connectCall["user"].step = "tls" -> ErrTlsError
                 [] connectCall["user"].step = "handshake" -> ErrHandshakeFailed )
        /\ connectCall["user"].events = {}
        /\ socket = "none"
        /\ tls = "none"

\* C21: a failed write inside send / sendBinary / sendPingFrame /
\* sendPongFrame tears the connection down: once the write has failed and the
\* call has returned, the connection has left Open (connected is false).
C21_FailedWriteLeavesOpen ==
    (transportBroken /\ \A t \in WThreads : wpc[t] # "write") => ~connected

C24_SetterInsideCallbackReturns ==
    (cbpc["io"] = "cb_lock") ~> (cbpc["io"] = "in_cb_unlocked")

\* C25: while the session stays Open, every message the I/O loop has taken
\* from the async queue and passed to send() is on the wire as one whole
\* Text frame, and the frames of one producer's messages are in that
\* producer's enqueue order.
C25_AsyncWrittenInOrderOnce ==
    connected =>
        /\ \A k \in 1..calls[Drainer] :
            /\ frames[k].opcode = OpText
            /\ WrittenWhole(k)
        /\ \A k, l \in 1..Len(frames) :
            (k < l /\ popped[k][1] = popped[l][1]) => popped[k][2] < popped[l][2]

\* C28 as stated: for every payload P and opcode Text or Binary, the frame
\* sendFrame builds has FIN, the opcode, the mask bit, the length in the
\* form of its size, four mask-key bytes, and readFrame parses it back to
\* fin, the opcode and P.
C28_RoundTrip ==
    cdBytes # <<>> =>
        LET n == Len(cdIn.payload)
            hdr == IF n < 126 THEN 2 ELSE IF n <= 65535 THEN 4 ELSE 10
        IN  /\ cdBytes[1] = 128 + cdIn.opcode
            /\ cdBytes[2] >= 128
            /\ n < 126 => cdBytes[2] = 128 + n
            /\ (n >= 126 /\ n <= 65535) =>
                  /\ cdBytes[2] = 128 + 126
                  /\ cdBytes[3] = n \div 256
                  /\ cdBytes[4] = n % 256
            /\ n > 65535 =>
                  /\ cdBytes[2] = 128 + 127
                  /\ SubSeq(cdBytes, 3, 10) =
                        <<0, 0, 0, 0, 0, n \div 65536, (n \div 256) % 256, n % 256>>
            /\ Len(cdBytes) = hdr + 4 + n
            /\ SubSeq(cdBytes, hdr + 1, hdr + 4) = cdIn.key
            /\ cdOut # NoParse =>
                  cdOut = [status |-> "ok", fin |-> TRUE, opcode |-> cdIn.opcode,
                           payload |-> cdIn.payload, used |-> Len(cdBytes)]

\* C28, for payloads readFrame accepts (n <= config.maxMessageSize): the
\* frame sendFrame builds has FIN, the opcode, the mask bit, the length in
\* the form of its size, four mask-key bytes, and readFrame parses it back
\* to fin, the opcode and P.
C28_RoundTripWithinMax ==
    cdBytes # <<>> =>
        LET n == Len(cdIn.payload)
            hdr == IF n < 126 THEN 2 ELSE IF n <= 65535 THEN 4 ELSE 10
        IN  /\ cdBytes[1] = 128 + cdIn.opcode
            /\ cdBytes[2] >= 128
            /\ n < 126 => cdBytes[2] = 128 + n
            /\ (n >= 126 /\ n <= 65535) =>
                  /\ cdBytes[2] = 128 + 126
                  /\ cdBytes[3] = n \div 256
                  /\ cdBytes[4] = n % 256
            /\ n > 65535 =>
                  /\ cdBytes[2] = 128 + 127
                  /\ SubSeq(cdBytes, 3, 10) =
                        <<0, 0, 0, 0, 0, n \div 65536, (n \div 256) % 256, n % 256>>
            /\ Len(cdBytes) = hdr + 4 + n
            /\ SubSeq(cdBytes, hdr + 1, hdr + 4) = cdIn.key
            /\ (cdOut # NoParse /\ n <= cdMax) =>
                  cdOut = [status |-> "ok", fin |-> TRUE, opcode |-> cdIn.opcode,
                           payload |-> cdIn.payload, used |-> Len(cdBytes)]

\* A payload of more than 65535 bytes, masked with a key of four different
\* bytes, has been encoded in the 64-bit form and parsed back.
C28_Witness ==
    /\ Len(cdIn.payload) > 65535
    /\ cdIn.key = <<255, 1, 2, 3>>
    /\ cdBytes # <<>>
    /\ cdBytes[2] = 128 + 127
    /\ cdOut # NoParse
    /\ cdOut.status = "ok"
    /\ cdOut.payload = cdIn.payload

\* C26: fragmented messages are reassembled: a Text or Binary frame with
\* FIN=0, or a Continuation frame with FIN=0, delivers nothing; the
\* Continuation frame with FIN=1 that ends a run opened by a Text or Binary
\* frame with FIN=0 causes exactly one raw-message callback, whose payload is
\* the concatenation of the fragments in arrival order.
C26_FragmentsReassembled ==
    LET RECURSIVE Cat(_, _)
        Cat(s, k) == IF s > k THEN <<>> ELSE rxFed[s].payload \o Cat(s + 1, k)
        Data(k) == rxFed[k].opcode \in {OpText, OpBinary, OpContinuation}
        Delivered(k) == {i \in 1..Len(rxLog) :
                            rxLog[i].cb = "onRawMessage" /\ rxLog[i].frame = k}
    IN  \A k \in 1..Len(rxFed) :
          /\ (Data(k) /\ ~rxFed[k].fin) => Delivered(k) = {}
          /\ \A s \in 1..(k - 1) :
                ( /\ rxFed[s].opcode \in {OpText, OpBinary}
                  /\ ~rxFed[s].fin
                  /\ \A j \in (s + 1)..(k - 1) :
                        rxFed[j].opcode = OpContinuation /\ ~rxFed[j].fin
                  /\ rxFed[k].opcode = OpContinuation
                  /\ rxFed[k].fin )
                => /\ Cardinality(Delivered(k)) = 1
                   /\ \A i \in Delivered(k) : rxLog[i].payload = Cat(s, k)

\* C27: a control frame (Close, Ping, Pong) with a payload of more than 125
\* bytes or with FIN=0, and a frame whose opcode is none of 0x0, 0x1, 0x2,
\* 0x8, 0x9, 0xA, causes onError(InvalidFrame), reaches no message, ping or
\* pong callback, and makes the I/O loop exit.
C27_InvalidFrameFails ==
    \A k \in 1..Len(rxFed) :
        ( \/ /\ rxFed[k].opcode \in {OpClose, OpPing, OpPong}
             /\ (Len(rxFed[k].payload) > 125 \/ ~rxFed[k].fin)
          \/ rxFed[k].opcode \notin
                {OpContinuation, OpText, OpBinary, OpClose, OpPing, OpPong} )
        => /\ \E e \in 1..Len(rxErrors) :
                rxErrors[e].code = ErrInvalidFrame /\ rxErrors[e].frame = k
           /\ \A i \in 1..Len(rxLog) : rxLog[i].frame # k
           /\ k = Len(rxFed)
           /\ rxLoop = "exited"

C30_PortInRangeOrInvalid ==
    (puResult.parsed /\ (puUrl.port.written => puUrl.port.numeric)) =>
        /\ valid(puResult) =>
              /\ puResult.port \in 1..65535
              /\ puResult.port =
                    IF puUrl.port.written THEN puUrl.port.number
                    ELSE IF puUrl.scheme = WssPrefix THEN 443 ELSE 80
        /\ ( \/ puUrl.scheme \notin {WsPrefix, WssPrefix}
             \/ puUrl.host = <<>>
             \/ (puUrl.port.written /\ puUrl.port.number \notin 1..65535) )
           => ~valid(puResult)

\* C31: a callback registered by subscribe on thread S runs only on thread
\* S, inside its poll; emit runs no callback itself; and the events emitted
\* while a subscription is registered are delivered to it once each, in
\* emit order: those run, then those in the running poll, then those
\* pending are exactly the emits that found it registered.
C31_ThreadAffinity ==
    /\ [](\A id \in SubIds : \A i \in 1..Len(runLog[id]) :
             runLog[id][i].thread = subThread[id])
    /\ [][Len(emitLog') > Len(emitLog) => runLog' = runLog]_vars
    /\ [][runLog' # runLog =>
             \E t \in BusThreads : \E id \in SubIds :
                /\ pollpc[t] = "running"
                /\ subThread[id] = t
                /\ Len(runLog'[id]) = Len(runLog[id]) + 1
                /\ \A o \in SubIds \ {id} : runLog'[o] = runLog[o]]_vars
    /\ [](\A id \in SubIds :
             LET OfId(q) == SelectSeq(q, LAMBDA c : c.id = id)
                 EventsOf(q) == [j \in 1..Len(q) |-> q[j].event]
                 S == subThread[id]
                 emitted == {n \in 1..Len(emitLog) : id \in emitLog[n]}
                 delivered == IF S = 0 THEN <<>>
                              ELSE EventsOf(runLog[id]) \o EventsOf(OfId(toProcess[S]))
                                      \o EventsOf(OfId(m_pending[S]))
             IN  /\ {delivered[j] : j \in 1..Len(delivered)} = emitted
                 /\ \A a \in 1..Len(delivered) : \A b \in 1..Len(delivered) :
                       a < b => delivered[a] < delivered[b])

\* Threads 1 and 2 have subscribed, two events were emitted to both, thread
\* 1's poll has run its callback for both events, in order, and thread 2
\* has not polled yet.
C31_Witness ==
    /\ subThread[1] = 1
    /\ subThread[2] = 2
    /\ emitLog = <<{1, 2}, {1, 2}>>
    /\ runLog[1] = <<[event |-> 1, thread |-> 1, cancelled |-> FALSE],
                     [event |-> 2, thread |-> 1, cancelled |-> FALSE]>>
    /\ runLog[2] = <<>>
    /\ Len(m_pending[2]) = 2

\* C32: after a Subscription has been cancelled or destroyed its callback
\* is never invoked again, also not for events emitted before the cancel
\* and not yet processed by poll.
C32_NoCallbackAfterCancel ==
    \A id \in SubIds : \A i \in 1..Len(runLog[id]) : ~runLog[id][i].cancelled

\* C35: pop returns the empty indication only when no node is linked after
\* the head: while no push is between its tail exchange and its link store,
\* the queue is empty (pop would return nullopt, and empty() says so)
\* exactly when every item pushed has been popped; a pop that returns an
\* item found empty() false and a pop that returns nullopt found it true.
C35_EmptyOnlyWhenDrained ==
    /\ []( (\A p \in Producers : pcP[p] = "idle") =>
             ( empty <=>
               Len(popped) = Cardinality(UNION {{Item(p, k) : k \in 1..pushed[p]} :
                                                   p \in Producers}) ) )
    /\ [][ popped' # popped =>
             /\ ~empty
             /\ popped' = Append(popped, lastPop')
             /\ lastPop' # NULLOPT ]_vars
    /\ [][ (lastPop' = NULLOPT /\ lastPop # NULLOPT) => (empty /\ popped' = popped) ]_vars

\* Every producer has finished, a pop returned the last item and the next
\* pop returned nullopt.
C35_Witness ==
    /\ \A p \in Producers : pcP[p] = "idle" /\ pushed[p] = ItemsPerProducer
    /\ Len(popped) = NumProducers * ItemsPerProducer
    /\ lastPop = NULLOPT
    /\ empty
    /\ ~useAfterFree

\* C33: whenever the worker is not between two statements of one cycle
\* (it is at the loop test, waiting, or gone), the outstanding-ping flag is
\* set exactly when the most recent of start, a successful send, a Pong
\* arrival and a timeout detection was a successful send.
C33_FlagIffLastEventSend ==
    engPc \in {"test", "config", "wait_enter", "waiting", "after_wait", "done", "joined"}
        => (waitingPong_ <=> engLast = "send")

\* C34: stop() called from another thread while the worker is anywhere in
\* its cycle returns, with the worker out of its loop, without the interval
\* having to elapse.
C34_StopWakesAndReturns ==
    (stopPc = "notify") ~> (stopPc = "returned" /\ engPc = "joined")

\* stop() has returned after it found the worker blocked in its wait.
C34_Witness ==
    /\ stopPc = "returned"
    /\ engPc = "joined"
    /\ ~running_
    /\ engCycle.n = 1
    /\ engCycle.pings = 0

\* C36: the transport is never used while or after it is released: once
\* cleanup() has freed the TLS session and the socket, no thread is inside
\* rawSend.
C36_NoWriteOnReleasedTransport ==
    released => \A t \in WThreads : wpc[t] # "write"

\* C37: the Close frame written by disconnect() is the last frame written
\* on the connection: no byte of a data, Ping or Pong frame follows a byte
\* of the Close frame on the wire.
C37_CloseFrameIsLast ==
    \A i \in 1..Len(wire) : \A j \in 1..Len(wire) :
        (i < j /\ frames[wire[i][1]].opcode = OpClose)
            => frames[wire[j][1]].opcode = OpClose

\* C38: for each established connection onConnect is invoked before any
\* onRawMessage, onMessage, onPing or onPong of that connection: when the
\* I/O thread invokes one of these, no connect() is between marking the
\* session connected and its triggerConnect().
C38_OnConnectBeforeMessages ==
    [][ ( \/ \E len \in FrameLens : len <= MaxMessageSizeCfg /\ IoReadMessage(len)
          \/ HandlePingCallback
          \/ IoReadPong )
        => \A t \in ConnectThreads :
              "connected" \in connectCall[t].events
                 => "onConnect" \in connectCall[t].events ]_vars

\* C39: the I/O loop never discards an async message: as long as no write
\* has failed, every payload it dequeued and whose send() has returned is on
\* the wire as a whole Text frame, also when disconnect() clears connected
\* during the drain.
C39_DequeuedIsWritten ==
    ~transportBroken =>
        Cardinality({f \in 1..Len(frames) :
                        /\ frames[f].by = Drainer
                        /\ frames[f].opcode = OpText
                        /\ WrittenWhole(f)}) = calls[Drainer]

\* C40: disconnect() terminates when called from inside a user callback: a
\* call made within a callback running on the I/O thread or within the
\* PingTimeout onError running on the heartbeat worker eventually returns.
C40_DisconnectInCallbackReturns ==
    /\ (rpc["io"] = "d_exchange") ~> (rpc["io"] = "d_returned")
    /\ (rpc["hb"] = "d_exchange") ~> (rpc["hb"] = "d_returned")

=============================================================================
